---- MODULE Spec2Model ----
(***************************************************************************)
(* configo: the change notifier (notifier.go), the configuration manager   *)
(* (ConfigManager) and the layered resolution it sets up on viper.         *)
(*                                                                         *)
(* Spec        the notifier alone: Subscribe, context cancellation, the    *)
(*             monitor goroutine of each subscription, concurrent NewEvent *)
(*             calls and the subscribers' receives.                        *)
(* FairSpec    Spec with the fairness the Go scheduler and sync.RWMutex    *)
(*             give to running goroutines.                                 *)
(* ResolveSpec the resolution alone: a configuration type, the environment *)
(*             and the file are varied and the configuration is loaded.    *)
(* SpecMgr     a manager: NewConfigManager, file changes, the watcher's    *)
(*             OnConfigChange handler and the application's calls.         *)
(* TypeSpec    the reflection passes over a configuration type: the tree   *)
(*             builder (ParseConfigStruct), env.GetEnvs and                *)
(*             defaultValues.GetDefaultValues, over a family of types.     *)
(* NodeSpec    trees built by hand with NewConfigNode, AddChildNode and    *)
(*             SetConfigDescription.                                       *)
(* RenderSpec  the YAML template: a type is parsed and its tree rendered   *)
(*             by GenerateYAMLFromTree, with and without descriptions.     *)
(***************************************************************************)
EXTENDS Integers, Sequences, FiniteSets, TLC

\* Number of Subscribe calls explored (channels are numbered as they are made).
MaxSubs == 2

\* make(chan ConfigUpdateMsg[T], 1): the capacity of a subscriber's channel.
ChanCap == 1

Chans == 1..MaxSubs

\* The contexts callers pass to Subscribe; two subscriptions may share one.
Ctxs == {"ctxA", "ctxB"}

\* Goroutines that call NewEvent.
Publishers == {"p1", "p2"}

\* The zero value of T and of ConfigUpdateMsg[T] (what a closed channel yields).
ZeroCfg == 0

ZeroMsg == [OldConfig |-> ZeroCfg, NewConfig |-> ZeroCfg]

\* The events the publishers of Spec pass to NewEvent.
EventInputs == {[OldConfig |-> 1, NewConfig |-> 2], [OldConfig |-> 2, NewConfig |-> 1]}

\* No goroutine (the writer slot of a mutex that no writer holds or waits for).
NoOne == 0

VARIABLES
    subscribers,   \* r.subscribers: the set of channels in the map
    chanCtx,       \* ch -> the ctx its Subscribe call was given ("none": not made yet)
    chanBuf,       \* ch -> the buffered, undelivered events of the channel
    chanClosed,    \* ch -> how many times close(ch) ran
    cancelled,     \* the contexts whose Done channel is closed
    monitor,       \* ch -> where the Subscribe call / its monitor goroutine stands
    mu,            \* r.mu: [w: the writer holding or waiting for it, r: the readers holding it]
    pub,           \* publisher -> its NewEvent call: pc, msg, channels still to visit
    fault,         \* the runtime panic that ended the program ("none": running)
    schema,        \* the node tree of the configuration type: node -> ConfigNode
    environ,       \* the names of the environment variables that are set
    doc,           \* leaf -> what the configuration file holds under the leaf's key
    resolved,      \* <<>>, or <<leaf -> value>>: what the latest Unmarshal decoded
    validate,      \* how the configuration type T declares Validate (see ValidateKinds)
    file,          \* the configuration file as it is on disk
    pending,       \* file-change events the watcher has still to hand to the handler
    config,        \* r.config: <<>> is nil, <<c>> points to the value c
    errorHandler,  \* r.errorHandler
    updateMu,      \* r.updateMu: who holds it for writing ("free": nobody)
    reported,      \* the latest call of an error handler: which one, with which error
    ctor,          \* the NewConfigManager call
    hnd,           \* the OnConfigChange handler (one watcher goroutine runs it)
    app,           \* the application's calls on the manager it was given
    typ,           \* the configuration type handed to the parsers
    version,       \* which version of the tree builder runs
    built,         \* what ParseConfigStruct returned: the tree and the error
    instance,      \* what NewConfigManager / NewConfigInspector returned
    envs,          \* what env.GetEnvs returned
    defaults,      \* what defaultValues.GetDefaultValues returned
    heap,          \* the nodes of a tree built by hand
    nodeCall,      \* the latest node operation on heap and its error
    yaml           \* the results of the GenerateYAMLFromTree calls on the built tree

nvars == <<subscribers, chanCtx, chanBuf, chanClosed, cancelled, monitor, mu, pub, fault>>

rvars == <<schema, environ, doc, resolved>>

mvars == <<validate, file, pending, config, errorHandler, updateMu, reported, ctor, hnd, app>>

tvars == <<typ, version, built, instance, envs, defaults, heap, nodeCall, yaml>>

vars == <<nvars, rvars, mvars, tvars>>

----------------------------------------------------------------------------
\* sync.RWMutex, as the notifier uses it.

\* RLock returns at once unless a writer holds the mutex or waits for it.
CanRLock(m) == m.w = NoOne

\* Lock first takes the writers' turn (one writer at a time)...
CanLockTurn(m) == m.w = NoOne

\* ...and then waits until the readers that hold the mutex have left.
CanLockEnterMissing(m) == TRUE

CanLockEnter(m) == m.r = {}

\* A publisher outside NewEvent. Inside, besides the call's msg and the channels the
\* range has still to visit, the record remembers one fact of the moment of the call:
\* late, the channels whose context was already cancelled then (each forgotten once
\* the range has visited the channel).
IdlePub == [pc |-> "idle", msg |-> ZeroMsg, todo |-> {}, late |-> {}]

----------------------------------------------------------------------------
\* Channel operations.

\* A blocking send in place of select/default: never drops, may overfill the model's buffer.
TrySendBlockingFree(buf, msg) == Append(buf, msg)

\* Latest-wins: a full buffer's event is displaced by the new one.
TrySendOverwrite(buf, msg) == IF Len(buf) < ChanCap THEN Append(buf, msg) ELSE Append(Tail(buf), msg)

\* The event reaches the subscriber with OldConfig and NewConfig exchanged.
TrySendSwapped(buf, msg) ==
    IF Len(buf) < ChanCap
    THEN Append(buf, [OldConfig |-> msg.NewConfig, NewConfig |-> msg.OldConfig])
    ELSE buf

\* select { case ch <- msg: default: }: the send happens only if the buffer has room.
TrySend(buf, msg) == IF Len(buf) < ChanCap THEN Append(buf, msg) ELSE buf

\* v, ok := <-ch on a channel that does not block: a buffered event first, then closed.
RecvResult(ch) ==
    IF chanBuf[ch] # <<>>
    THEN [ok |-> TRUE, msg |-> Head(chanBuf[ch])]
    ELSE [ok |-> FALSE, msg |-> ZeroMsg]

----------------------------------------------------------------------------
\* Strings. A string is a sequence of one-character strings.

Dash == <<"-">>

ToUpperChar(c) ==
    CASE c = "a" -> "A" [] c = "p" -> "P" [] c = "s" -> "S"
      [] c = "x" -> "X" [] c = "y" -> "Y" [] c = "e" -> "E"
      [] c = "m" -> "M" [] c = "q" -> "Q" [] OTHER -> c

\* strings.ToUpper
ToUpper(str) == [i \in 1..Len(str) |-> ToUpperChar(str[i])]

RECURSIVE Join(_, _)
\* strings.Join(parts, sep)
Join(parts, sep) ==
    IF parts = <<>> THEN <<>>
    ELSE IF Len(parts) = 1 THEN parts[1]
    ELSE parts[1] \o sep \o Join(Tail(parts), sep)

\* strings.NewReplacer(from, to).Replace(str), from and to one character each
ReplaceChar(str, from, to) == [i \in 1..Len(str) |-> IF str[i] = from THEN to ELSE str[i]]

----------------------------------------------------------------------------
\* The node tree (parser.ConfigNode). A tree is a function from node ids to nodes;
\* a node records FieldName, EnvName (the env tag), Parent (NilNode for the root),
\* IsLeaf (ConfigDescription != nil) and the leaf's Default (IsExist, Value).

\* The Parent of the root node: nil.
NilNode == -1

\* The root node NewRootNode() makes.
RootId == 0

Leaves(t) == {n \in DOMAIN t : t[n].IsLeaf}

RECURSIVE GetFullPathPartsWithRoot(_, _)
\* GetFullPathParts starting the path with the name of the root.
GetFullPathPartsWithRoot(t, n) ==
    IF t[n].Parent = NilNode THEN <<t[n].FieldName>>
    ELSE Append(GetFullPathPartsWithRoot(t, t[n].Parent), t[n].FieldName)

RECURSIVE GetFullPathParts(_, _)
\* ConfigNode.GetFullPathParts
GetFullPathParts(t, n) ==
    IF t[n].Parent = NilNode THEN <<>>
    ELSE Append(GetFullPathParts(t, t[n].Parent), t[n].FieldName)

RECURSIVE ParentChain(_, _)
\* The nodes from just below the root down to cur (cur itself unless it is the root).
ParentChain(t, cur) ==
    IF t[cur].Parent = NilNode THEN <<>>
    ELSE Append(ParentChain(t, t[cur].Parent), cur)

\* The loop of GetAllParentNodes without slices.Reverse: nearest ancestor first.
GetAllParentNodesUnreversed(t, n) ==
    LET chain == ParentChain(t, t[n].Parent)
    IN  [i \in 1..Len(chain) |-> chain[Len(chain) + 1 - i]]

\* ConfigNode.GetAllParentNodes: the ancestors below the root, topmost first.
GetAllParentNodes(t, n) == ParentChain(t, t[n].Parent)

\* ConfigNode.GetEnv: "-" on the node itself means no variable, another env tag on
\* the node is the whole name; otherwise the name is built from the ancestors'
\* fragments (env tag if not empty, else field name) and the node's field name.
\* (The loop's own test for "-" reads r.EnvName, which is never "-" there.)
GetEnv(t, n) ==
    IF t[n].EnvName = Dash THEN [env |-> <<>>, exist |-> FALSE]
    ELSE IF t[n].EnvName # <<>> THEN [env |-> ToUpper(t[n].EnvName), exist |-> TRUE]
    ELSE LET parents == GetAllParentNodes(t, n)
             pathParts == [i \in 1..Len(parents) |->
                              IF t[parents[i]].EnvName # <<>>
                              THEN t[parents[i]].EnvName
                              ELSE t[parents[i]].FieldName]
         IN  [env |-> ToUpper(Join(Append(pathParts, t[n].FieldName), <<"_">>)),
              exist |-> TRUE]

----------------------------------------------------------------------------
\* What setupViper registers with viper, and what viper's Unmarshal then decodes.

\* strings.Join(item.GetFullPathParts(), "."): the key of a leaf.
BindKey(t, n) == Join(GetFullPathParts(t, n), <<".">>)

\* The leaves setupViper binds with BindEnv, and the leaves it gives a default.
BoundLeaves(t) == {n \in Leaves(t) : GetEnv(t, n).exist}

DefaultLeaves(t) == {n \in Leaves(t) : t[n].Default.IsExist}

\* AutomaticEnv with SetEnvKeyReplacer(".", "_"): the variable viper looks up for a
\* key on its own, whatever was bound.
AutomaticEnvName(key) == ToUpper(ReplaceChar(key, ".", "_"))

\* The values a leaf can get, tagged with where they come from.
EnvValue(name) == [src |-> "env", key |-> name]

FileValue(key) == [src |-> "file", key |-> key]

ZeroValue == [src |-> "zero", key |-> <<>>]

\* The keys Unmarshal asks for: those with a binding, a default or a file entry.
KnownLeaves(t, d) == BoundLeaves(t) \cup DefaultLeaves(t) \cup {n \in Leaves(t) : d[n] # "absent"}

\* The value viper finds for a leaf: the automatic variable, then the bound one, then
\* the file (a key without a value counts as missing), then the default; a leaf that
\* gets nothing keeps the zero value of its field.
Find(t, env, d, n) ==
    IF n \notin KnownLeaves(t, d) THEN ZeroValue
    ELSE IF AutomaticEnvName(BindKey(t, n)) \in env
         THEN EnvValue(AutomaticEnvName(BindKey(t, n)))
    ELSE IF n \in BoundLeaves(t) /\ GetEnv(t, n).env \in env
         THEN EnvValue(GetEnv(t, n).env)
    ELSE IF d[n] = "value" THEN FileValue(BindKey(t, n))
    ELSE IF n \in DefaultLeaves(t) THEN t[n].Default.Value
    ELSE ZeroValue

\* Viper.Unmarshal(&cfg)
Unmarshal(t, env, d) == [n \in Leaves(t) |-> Find(t, env, d, n)]

\* The environment variables that matter to a tree.
EnvNamesOf(t) ==
    {AutomaticEnvName(BindKey(t, n)) : n \in Leaves(t)}
        \cup {GetEnv(t, n).env : n \in BoundLeaves(t)}

----------------------------------------------------------------------------
\* The configuration types explored: struct { S struct { P } ; A }, with the env tags
\* and the default of P varied.

DefaultOf(name, has) ==
    [IsExist |-> has, Value |-> [src |-> "default", key |-> name]]

SchemaOf(es, ep, ea, dp) ==
    [n \in 0..3 |->
        CASE n = 0 -> [FieldName |-> <<"r", "o", "o", "t">>, EnvName |-> <<>>, Parent |-> NilNode,
                       IsLeaf |-> FALSE, Default |-> DefaultOf(<<>>, FALSE)]
          [] n = 1 -> [FieldName |-> <<"s">>, EnvName |-> es, Parent |-> RootId,
                       IsLeaf |-> FALSE, Default |-> DefaultOf(<<>>, FALSE)]
          [] n = 2 -> [FieldName |-> <<"p">>, EnvName |-> ep, Parent |-> 1,
                       IsLeaf |-> TRUE, Default |-> DefaultOf(<<"p">>, dp)]
          [] n = 3 -> [FieldName |-> <<"a">>, EnvName |-> ea, Parent |-> RootId,
                       IsLeaf |-> TRUE, Default |-> DefaultOf(<<"a">>, TRUE)]]

Schemas ==
    {SchemaOf(es, ep, ea, dp) :
        es \in {<<>>, Dash, <<"x">>}, ep \in {<<>>, Dash, <<"y">>},
        ea \in {<<>>, <<"y">>}, dp \in BOOLEAN}

NodeIds == UNION {DOMAIN t : t \in Schemas}

AllEnvNames == UNION {EnvNamesOf(t) : t \in Schemas}

\* What a leaf's key can hold in the file.
DocEntries == {"absent", "null", "value"}

ResolveInit ==
    /\ schema \in Schemas
    /\ environ = {}
    /\ doc = [n \in Leaves(schema) |-> "absent"]
    /\ resolved = <<>>

\* os.Setenv / os.Unsetenv before the configuration is loaded.
Setenv(name) ==
    /\ name \in EnvNamesOf(schema)
    /\ name \notin environ
    /\ environ' = environ \cup {name}
    /\ UNCHANGED <<schema, doc, resolved>>
    /\ UNCHANGED <<nvars, mvars, tvars>>

Unsetenv(name) ==
    /\ name \in environ
    /\ environ' = environ \ {name}
    /\ UNCHANGED <<schema, doc, resolved>>
    /\ UNCHANGED <<nvars, mvars, tvars>>

\* The configuration file is written.
WriteFile(n, entry) ==
    /\ n \in Leaves(schema)
    /\ doc[n] # entry
    /\ doc' = [doc EXCEPT ![n] = entry]
    /\ UNCHANGED <<schema, environ, resolved>>
    /\ UNCHANGED <<nvars, mvars, tvars>>

\* loadConfig on a readable file: ReadInConfig, then Unmarshal.
LoadResolved ==
    /\ resolved' = <<Unmarshal(schema, environ, doc)>>
    /\ UNCHANGED <<schema, environ, doc>>
    /\ UNCHANGED <<nvars, mvars, tvars>>

ResolveNext ==
    \/ \E name \in AllEnvNames : Setenv(name)
    \/ \E name \in AllEnvNames : Unsetenv(name)
    \/ \E n \in NodeIds, entry \in DocEntries : WriteFile(n, entry)
    \/ LoadResolved

\* The resolution is not part of the notifier's runs.
ResolveIdle ==
    /\ schema = SchemaOf(<<>>, <<>>, <<>>, TRUE)
    /\ environ = {}
    /\ doc = [n \in Leaves(schema) |-> "absent"]
    /\ resolved = <<>>

----------------------------------------------------------------------------
\* Configuration types as reflect shows them. A struct type is its sequence of
\* fields; a field records its Go name (Name), the mapstructure tag (ms: whether it
\* is there, and its value), the env tag (env, empty when absent), the default tag
\* (def: whether it is there, and its text), the kind of the field's type, whether the
\* field is a slice of that kind, and for a struct kind the fields of the struct.

NoTag == [has |-> FALSE, val |-> <<>>]

Tag(text) == [has |-> TRUE, val |-> text]

Field(name, ms, env, def, kind, slice, fields) ==
    [Name |-> name, ms |-> ms, env |-> env, def |-> def, desc |-> <<>>,
     kind |-> kind, slice |-> slice, fields |-> fields]

RECURSIVE Split(_, _)
\* strings.Split(str, sep), sep one character
Split(str, sep) ==
    IF \A i \in 1..Len(str) : str[i] # sep THEN <<str>>
    ELSE LET i == CHOOSE k \in 1..Len(str) :
                      str[k] = sep /\ \A j \in 1..(k - 1) : str[j] # sep
         IN  <<SubSeq(str, 1, i - 1)>> \o Split(SubSeq(str, i + 1, Len(str)), sep)

Digits == {"0", "1", "7"}

\* strconv.ParseInt(text, 10, 64) and strconv.Atoi succeed
ParseIntOk(text) == text # <<>> /\ \A i \in 1..Len(text) : text[i] \in Digits

\* strconv.ParseBool succeeds (of its twelve spellings, those of one character and
\* the two in lower case)
ParseBoolOk(text) ==
    text \in {<<"1">>, <<"0">>, <<"t">>, <<"f">>, <<"T">>, <<"F">>,
              <<"t", "r", "u", "e">>, <<"f", "a", "l", "s", "e">>}

\* strconv.ParseFloat(text, 64) succeeds (plain decimal notation)
ParseFloatOk(text) ==
    /\ \A i \in 1..Len(text) : text[i] \in Digits \cup {"."}
    /\ \E i \in 1..Len(text) : text[i] \in Digits
    /\ Cardinality({i \in 1..Len(text) : text[i] = "."}) <= 1

\* Whether one default text parses as a value of the kind.
ParsesAs(kind, text) ==
    CASE kind = "int" -> ParseIntOk(text)
      [] kind = "bool" -> ParseBoolOk(text)
      [] kind = "float" -> ParseFloatOk(text)
      [] OTHER -> TRUE

RECURSIVE StripZeros(_)
\* The decimal text of the integer ParseInt returns for a text of digits.
StripZeros(text) ==
    IF Len(text) > 1 /\ Head(text) = "0" THEN StripZeros(Tail(text)) ELSE text

\* The value a parsed text stands for, written in one spelling per value: the
\* integer without leading zeros, the bool as true or false, a string as it is.
ValueOf(kind, text) ==
    CASE kind = "int" -> StripZeros(text)
      [] kind = "bool" -> IF text \in {<<"1">>, <<"t">>, <<"T">>, <<"t", "r", "u", "e">>}
                          THEN <<"t", "r", "u", "e">> ELSE <<"f", "a", "l", "s", "e">>
      [] OTHER -> text

\* ValueOf on every item of a list
ValuesOf(kind, items) == [i \in 1..Len(items) |-> ValueOf(kind, items[i])]

----------------------------------------------------------------------------
\* Errors: a message and the name or text it is about; NoErr is nil.

NoErr == [msg |-> "nil", arg |-> <<>>, wrapped |-> FALSE]

Err(msg, arg) == [msg |-> msg, arg |-> arg, wrapped |-> FALSE]

\* fmt.Errorf("parsing config struct error: %w", err)
WrapParsingError(err) == [err EXCEPT !.wrapped = TRUE]

----------------------------------------------------------------------------
\* Nodes live in a heap: a function from 0..k to nodes, the root at RootId. A node
\* that no AddChildNode has attached yet has Parent = NilNode.

NoValue == [kind |-> "nil", items |-> <<>>]

NoDefault == [IsExist |-> FALSE, Value |-> NoValue]

\* NewConfigNode(fieldName, description)
NewConfigNode(fieldName) ==
    [FieldName |-> fieldName, Description |-> <<>>, EnvName |-> <<>>,
     Parent |-> NilNode, Level |-> 0,
     Children |-> <<>>, IsLeaf |-> FALSE, IsArrayOfStructs |-> FALSE,
     ValueType |-> "invalid", IsArray |-> FALSE, Default |-> NoDefault]

\* NewRootNode()
NewRootNode == NewConfigNode(<<"r", "o", "o", "t">>)

RootOnly == (RootId :> NewRootNode)

\* The id the next allocated node gets.
NextId(h) == Cardinality(DOMAIN h)

Alloc(h, node) == h @@ (NextId(h) :> node)

\* AddChildNode without the test of the leaf descriptor.
AddChildNodeUnchecked(h, r, node) ==
    [h |-> [h EXCEPT ![node].Parent = r,
                     ![node].Level = h[r].Level + 1,
                     ![r].Children = Append(@, node)],
     err |-> NoErr]

\* r.AddChildNode(node): refused when r has a leaf descriptor.
AddChildNode(h, r, node) ==
    IF h[r].IsLeaf
    THEN [h |-> h, err |-> Err("item in node != nil. adding children node is not possible", h[node].FieldName)]
    ELSE [h |-> [h EXCEPT ![node].Parent = r,
                          ![node].Level = h[r].Level + 1,
                          ![r].Children = Append(@, node)],
          err |-> NoErr]

\* SetConfigDescription recording every leaf as a leaf of a primitive type.
SetConfigDescriptionScalar(h, r, isArray, valueType, isDefaultExist, defaultValue) ==
    IF Len(h[r].Children) > 0
    THEN [h |-> h, err |-> Err("children in node != 0. setting item to node is not possible", h[r].FieldName)]
    ELSE [h |-> [h EXCEPT ![r].IsLeaf = TRUE,
                          ![r].IsArray = FALSE,
                          ![r].ValueType = valueType,
                          ![r].Default = [IsExist |-> isDefaultExist, Value |-> defaultValue]],
          err |-> NoErr]

\* r.SetConfigDescription(...): refused when r has children.
SetConfigDescription(h, r, isArray, valueType, isDefaultExist, defaultValue) ==
    IF Len(h[r].Children) > 0
    THEN [h |-> h, err |-> Err("children in node != 0. setting item to node is not possible", h[r].FieldName)]
    ELSE [h |-> [h EXCEPT ![r].IsLeaf = TRUE,
                          ![r].IsArray = isArray,
                          ![r].ValueType = valueType,
                          ![r].Default = [IsExist |-> isDefaultExist, Value |-> defaultValue]],
          err |-> NoErr]

----------------------------------------------------------------------------
\* The tree builder, in its two versions: "before" attaches a node to its parent
\* before it descends into the field (and knows slices and the env tag of every
\* node), "after" builds the node's subtree first and attaches it last.

ParserVersions == {"before", "after"}

\* The default tag of a field decoded for the leaf descriptor: the value, or the error.
ParseDefault(ver, f) ==
    IF ~f.def.has THEN [value |-> NoValue, err |-> NoErr]
    ELSE IF f.slice
    THEN LET items == Split(f.def.val, ",")
             bad == {i \in 1..Len(items) : ~ParsesAs(f.kind, items[i])}
             firstBad == items[CHOOSE i \in bad : \A j \in bad : i <= j]
         IN  IF ver = "after"
             THEN [value |-> IF f.kind = "string" THEN [kind |-> "string", items |-> items]
                             ELSE NoValue,
                   err |-> NoErr]
             ELSE IF f.kind \notin {"string", "int", "float", "bool"}
             THEN [value |-> NoValue, err |-> Err("unsupported slice type", <<>>)]
             ELSE IF bad # {}
             THEN [value |-> NoValue, err |-> Err("cannot parse as " \o f.kind \o " in array", firstBad)]
             ELSE [value |-> [kind |-> f.kind, items |-> ValuesOf(f.kind, items)], err |-> NoErr]
    ELSE IF ~ParsesAs(f.kind, f.def.val)
    THEN [value |-> NoValue, err |-> Err("cannot parse as " \o f.kind, f.def.val)]
    ELSE [value |-> [kind |-> f.kind, items |-> <<ValueOf(f.kind, f.def.val)>>], err |-> NoErr]

\* parseDescription(configNode, field)
parseDescription(ver, h, node, f) ==
    IF f.kind = "struct" /\ ~f.slice
    THEN [h |-> h, err |-> Err("expected not struct type but got struct", <<>>)]
    ELSE LET d == ParseDefault(ver, f)
             set == SetConfigDescription(h, node, f.slice, f.kind, f.def.has, d.value)
         IN  IF d.err # NoErr THEN [h |-> h, err |-> d.err]
             ELSE IF set.err # NoErr \/ ver = "before" THEN set
             ELSE [h |-> [set.h EXCEPT ![node].EnvName = ToUpper(f.env)], err |-> NoErr]

RECURSIVE parseNode(_, _, _, _)
\* parseNode(parentNode, t), from the field that heads fields on
parseNode(ver, h, parentNode, fields) ==
    IF fields = <<>> THEN [h |-> h, err |-> NoErr]
    ELSE
    LET f == Head(fields)
        currentNode == NextId(h)
    IN  IF ~f.ms.has
        THEN [h |-> h, err |-> Err("field has no 'mapstructure' tag", f.Name)]
        ELSE IF ver = "before"
        THEN LET made == Alloc(h, [NewConfigNode(f.ms.val) EXCEPT !.EnvName = f.env,
                                                                    !.Description = f.desc])
                 added == AddChildNode(made, parentNode, currentNode)
                 inner ==
                     IF f.kind = "struct" /\ f.slice
                     THEN parseNode(ver,
                                    [added.h EXCEPT ![currentNode].IsArrayOfStructs = TRUE],
                                    currentNode, f.fields)
                     ELSE IF f.kind = "struct"
                     THEN parseNode(ver, added.h, currentNode, f.fields)
                     ELSE parseDescription(ver, added.h, currentNode, f)
             IN  IF added.err # NoErr THEN added
                 ELSE IF inner.err # NoErr THEN inner
                 ELSE parseNode(ver, inner.h, parentNode, Tail(fields))
        ELSE LET made == Alloc(h, [NewConfigNode(f.ms.val) EXCEPT !.Description = f.desc])
                 inner ==
                     IF f.kind = "struct" /\ ~f.slice
                     THEN parseNode(ver, made, currentNode, f.fields)
                     ELSE parseDescription(ver, made, currentNode, f)
                 added == AddChildNode(inner.h, parentNode, currentNode)
             IN  IF inner.err # NoErr THEN inner
                 ELSE IF added.err # NoErr THEN added
                 ELSE parseNode(ver, added.h, parentNode, Tail(fields))

\* ParseConfigStruct returning rootNode, with what parseNode has attached to it, next
\* to the error of parseNode.
ParseConfigStructPartial(ver, t) ==
    IF t.kind # "struct"
    THEN [tree |-> <<RootOnly>>, err |-> Err("expected a struct type but got " \o t.kind, <<>>)]
    ELSE LET parsed == parseNode(ver, RootOnly, RootId, t.fields)
         IN  IF parsed.err # NoErr
             THEN [tree |-> <<parsed.h>>, err |-> WrapParsingError(parsed.err)]
             ELSE [tree |-> <<parsed.h>>, err |-> NoErr]

\* ParseConfigStruct(configStruct): the *ConfigNode returned (<<>> is nil, <<h>> the
\* root of heap h) and the error.
ParseConfigStruct(ver, t) ==
    IF t.kind # "struct"
    THEN [tree |-> <<RootOnly>>, err |-> Err("expected a struct type but got " \o t.kind, <<>>)]
    ELSE LET parsed == parseNode(ver, RootOnly, RootId, t.fields)
         IN  IF parsed.err # NoErr
             THEN [tree |-> <<>>, err |-> WrapParsingError(parsed.err)]
             ELSE [tree |-> <<parsed.h>>, err |-> NoErr]

----------------------------------------------------------------------------
\* The env package: the flat listing of environment variables of a type.

ToLowerChar(c) ==
    CASE c = "A" -> "a" [] c = "E" -> "e" [] c = "M" -> "m" [] c = "P" -> "p"
      [] c = "Q" -> "q" [] c = "S" -> "s" [] OTHER -> c

\* strings.ToLower
ToLower(str) == [i \in 1..Len(str) |-> ToLowerChar(str[i])]

\* getEnvName(field): the env tag unless it is "-", else the mapstructure tag unless
\* it is "-", else the field's name; upper-cased on return.
getEnvName(f) ==
    IF f.env = Dash THEN [envName |-> <<>>, isAllowEnv |-> FALSE]
    ELSE IF f.env # <<>> THEN [envName |-> ToUpper(f.env), isAllowEnv |-> TRUE]
    ELSE IF f.ms.val = Dash THEN [envName |-> <<>>, isAllowEnv |-> FALSE]
    ELSE IF f.ms.val # <<>> THEN [envName |-> ToUpper(f.ms.val), isAllowEnv |-> TRUE]
    ELSE [envName |-> ToUpper(f.Name), isAllowEnv |-> TRUE]

\* getMapstructureKey(field)
getMapstructureKey(f) == IF f.ms.val = <<>> THEN ToLower(f.Name) ELSE f.ms.val

\* parent + sep + part when both are non-empty, else whichever is not empty.
JoinPrefix(parent, sep, part) ==
    IF parent # <<>> /\ part # <<>> THEN parent \o <<sep>> \o part
    ELSE IF part # <<>> THEN part
    ELSE parent

RECURSIVE parseEnvStructure(_, _, _)
\* parseEnvStructure(t, parentEnvPrefix, parentBindKey, lines): the lines appended
\* for the fields from the head of fields on.
parseEnvStructure(fields, parentEnvPrefix, parentBindKey) ==
    IF fields = <<>> THEN <<>>
    ELSE
    LET f == Head(fields)
        name == getEnvName(f)
        childEnvName == JoinPrefix(parentEnvPrefix, "_", name.envName)
        childBindKey == JoinPrefix(parentBindKey, ".", getMapstructureKey(f))
        rest == parseEnvStructure(Tail(fields), parentEnvPrefix, parentBindKey)
    IN  IF ~name.isAllowEnv THEN rest
        ELSE IF f.kind = "struct" /\ ~f.slice
        THEN parseEnvStructure(f.fields, childEnvName, childBindKey) \o rest
        ELSE <<[EnvVar |-> ToUpper(childEnvName), BindKey |-> childBindKey]>> \o rest

\* GetEnvs(cfg)
GetEnvs(t) ==
    IF t.kind \in {"struct", "ptr"} THEN parseEnvStructure(t.fields, <<>>, <<>>) ELSE <<>>

----------------------------------------------------------------------------
\* The defaultValues package: the flat listing of the defaults of a type.

\* One element of a JSON array decoded into the kind: a string is written in
\* quotes, an integer in digits without a leading zero, a bool as true or false.
JsonItemOk(kind, tok) ==
    CASE kind = "string" -> Len(tok) >= 2 /\ Head(tok) = "\"" /\ tok[Len(tok)] = "\""
      [] kind = "int" -> ParseIntOk(tok) /\ (Len(tok) = 1 \/ Head(tok) # "0")
      [] kind = "bool" -> tok \in {<<"t", "r", "u", "e">>, <<"f", "a", "l", "s", "e">>}
      [] OTHER -> ParseFloatOk(tok)

JsonItem(kind, tok) == IF kind = "string" THEN SubSeq(tok, 2, Len(tok) - 1) ELSE ValueOf(kind, tok)

\* json.Unmarshal of a bracketed list into a slice of the kind (elements without a
\* comma inside): whether it succeeds, and the elements.
JsonList(kind, text) ==
    LET inner == SubSeq(text, 2, Len(text) - 1)
        toks == IF inner = <<>> THEN <<>> ELSE Split(inner, ",")
    IN  [ok |-> \A i \in 1..Len(toks) : JsonItemOk(kind, toks[i]),
         items |-> [i \in 1..Len(toks) |-> JsonItem(kind, toks[i])]]

\* json.Unmarshal of a bracketed list into a slice of the kind succeeds.
JsonListOk(kind, text) == JsonList(kind, text).ok

\* The default of one field as the collector decodes it: skip is TRUE when the
\* field contributes no line (no default, a slice of structs, or a text that does not
\* parse: that is printed and the field is passed over).
CollectDefault(f) ==
    IF f.def.val = <<>> THEN [skip |-> TRUE, value |-> NoValue]
    ELSE IF f.slice
    THEN IF f.kind \notin {"bool", "int", "float", "string"}
         THEN [skip |-> TRUE, value |-> NoValue]
         ELSE IF Head(f.def.val) = "[" /\ f.def.val[Len(f.def.val)] = "]"
         THEN IF JsonListOk(f.kind, f.def.val)
              THEN [skip |-> FALSE,
                    value |-> [kind |-> f.kind, items |-> JsonList(f.kind, f.def.val).items]]
              ELSE [skip |-> TRUE, value |-> NoValue]
         ELSE [skip |-> FALSE,
               value |-> [kind |-> "string", items |-> Split(f.def.val, ",")]]
    ELSE IF ParsesAs(f.kind, f.def.val)
    THEN [skip |-> FALSE, value |-> [kind |-> f.kind, items |-> <<ValueOf(f.kind, f.def.val)>>]]
    ELSE [skip |-> TRUE, value |-> NoValue]

RECURSIVE parseDefaultValues(_, _)
\* parseDefaultValues(t, parentBindKey, lines) on a struct: the lines appended (it
\* returns an error only for a type that is not a struct).
parseDefaultValues(fields, parentBindKey) ==
    IF fields = <<>> THEN <<>>
    ELSE
    LET f == Head(fields)
        childBindKey == JoinPrefix(parentBindKey, ".", getMapstructureKey(f))
        rest == parseDefaultValues(Tail(fields), parentBindKey)
        d == CollectDefault(f)
    IN  IF f.kind = "struct" /\ ~f.slice
        THEN parseDefaultValues(f.fields, childBindKey) \o rest
        ELSE IF d.skip THEN rest
        ELSE <<[BindKey |-> childBindKey, DefaultValue |-> d.value]>> \o rest

\* GetDefaultValues(cfg)
GetDefaultValues(t) ==
    IF t.kind \in {"struct", "ptr"}
    THEN [lines |-> parseDefaultValues(t.fields, <<>>), err |-> NoErr]
    ELSE [lines |-> <<>>, err |-> Err("not a struct", <<>>)]

----------------------------------------------------------------------------
\* The YAML template renderer. The text returned is modelled as its sequence of
\* lines, each the characters before the line's "\n"; an indent is its number of
\* spaces.

Spaces(n) == [i \in 1..n |-> " "]

RECURSIVE TrimLeft(_)
\* One line without its leading spaces.
TrimLeft(line) == IF line # <<>> /\ Head(line) = " " THEN TrimLeft(Tail(line)) ELSE line

\* strings.TrimSpace(text), as lines: the leading spaces of the first line and the
\* final "\n" go; the empty text is one empty line once it is written with a "\n".
TrimSpace(lines) ==
    IF lines = <<>> THEN <<<<>>>> ELSE <<TrimLeft(Head(lines))>> \o Tail(lines)

\* formatValue(value) for one value of a kind: nil prints as null, a string in
\* quotes, numbers and bools with %v.
formatValue(kind, item) ==
    CASE kind = "nil" -> [text |-> <<"n", "u", "l", "l">>, err |-> NoErr]
      [] kind = "string" -> [text |-> <<"\"">> \o item \o <<"\"">>, err |-> NoErr]
      [] kind \in {"int", "float", "bool"} -> [text |-> item, err |-> NoErr]
      [] OTHER -> [text |-> <<>>, err |-> Err("unsupported type", <<>>)]

\* The "# description" line written above a header when descriptions are printed.
DescriptionLine(node, indent, printDescription) ==
    IF printDescription /\ node.Description # <<>>
    THEN <<Spaces(indent) \o <<"#", " ">> \o node.Description>>
    ELSE <<>>

\* The "<name>:" line.
HeaderLine(node, indent) == Spaces(indent) \o node.FieldName \o <<":">>

\* The branch of GenerateYAMLFromTree for a leaf that is an array of primitives:
\* the header, then one "- item" line per element of the default.
RenderArrayLeaf(node, indent, printDescription) ==
    LET v == node.Default.Value
    IN  IF v.kind \notin {"string", "int", "float", "bool"}
        THEN [out |-> <<>>, err |-> Err("unsupported slice type", <<>>)]
        ELSE [out |-> DescriptionLine(node, indent, printDescription)
                        \o <<HeaderLine(node, indent)>>
                        \o [i \in 1..Len(v.items) |->
                               Spaces(indent + 2) \o <<"-", " ">> \o formatValue(v.kind, v.items[i]).text],
              err |-> NoErr]

\* The branch for a leaf of a primitive type: "<name>: <value>  # description".
RenderScalarLeaf(node, indent, printDescription) ==
    LET v == node.Default.Value
        valueStr == formatValue(v.kind, IF v.items = <<>> THEN <<>> ELSE v.items[1])
        comment == IF printDescription /\ node.Description # <<>>
                   THEN <<" ", " ", "#", " ">> \o node.Description ELSE <<>>
    IN  IF valueStr.err # NoErr THEN [out |-> <<>>, err |-> valueStr.err]
        ELSE [out |-> <<HeaderLine(node, indent) \o <<" ">> \o valueStr.text \o comment>>,
              err |-> NoErr]

RECURSIVE GenerateYAMLFromTree(_, _, _, _)
RECURSIVE RenderItems(_, _, _, _, _)
RECURSIVE RenderChildren(_, _, _, _)

\* The loop over the children of an array of structs: each child rendered, trimmed
\* and written after the dash (the first) or a space (the others).
RenderItems(h, children, indentOfStruct, printDescription, dash) ==
    IF children = <<>> THEN [out |-> <<>>, err |-> NoErr]
    ELSE LET item == GenerateYAMLFromTree(h, Head(children), indentOfStruct + 2, printDescription)
             trimmed == TrimSpace(item.out)
             rest == RenderItems(h, Tail(children), indentOfStruct, printDescription, " ")
         IN  IF item.err # NoErr THEN [out |-> <<>>, err |-> item.err]
             ELSE IF rest.err # NoErr THEN rest
             ELSE [out |-> <<Spaces(indentOfStruct) \o <<dash, " ">> \o Head(trimmed)>>
                             \o Tail(trimmed) \o rest.out,
                   err |-> NoErr]

\* The closing loop over the children of a node that is no array of structs.
RenderChildren(h, children, nextIndent, printDescription) ==
    IF children = <<>> THEN [out |-> <<>>, err |-> NoErr]
    ELSE LET sub == GenerateYAMLFromTree(h, Head(children), nextIndent, printDescription)
             rest == RenderChildren(h, Tail(children), nextIndent, printDescription)
         IN  IF sub.err # NoErr THEN [out |-> <<>>, err |-> sub.err]
             ELSE IF rest.err # NoErr THEN rest
             ELSE [out |-> sub.out \o rest.out, err |-> NoErr]

\* GenerateYAMLFromTree(node, indent, printDescription): the text and the error.
GenerateYAMLFromTree(h, node, indent, printDescription) ==
    LET n == h[node]
        isRootNode == n.Level = 0
        own ==
            IF isRootNode THEN [out |-> <<>>, err |-> NoErr]
            ELSE IF n.IsArrayOfStructs
            THEN LET items == RenderItems(h, n.Children, indent + 4, printDescription, "-")
                 IN  IF items.err # NoErr THEN items
                     ELSE [out |-> DescriptionLine(n, indent, printDescription)
                                     \o <<HeaderLine(n, indent)>> \o items.out,
                           err |-> NoErr]
            ELSE IF n.IsLeaf
            THEN IF n.IsArray THEN RenderArrayLeaf(n, indent, printDescription)
                 ELSE RenderScalarLeaf(n, indent, printDescription)
            ELSE IF Len(n.Children) > 0
            THEN [out |-> DescriptionLine(n, indent, printDescription) \o <<HeaderLine(n, indent)>>,
                  err |-> NoErr]
            ELSE [out |-> <<>>, err |-> NoErr]
        kids ==
            IF n.IsArrayOfStructs THEN [out |-> <<>>, err |-> NoErr]
            ELSE RenderChildren(h, n.Children, IF isRootNode THEN 0 ELSE indent + 4,
                                printDescription)
    IN  IF own.err # NoErr THEN [out |-> <<>>, err |-> own.err]
        ELSE IF kids.err # NoErr THEN [out |-> <<>>, err |-> kids.err]
        ELSE [out |-> own.out \o kids.out, err |-> NoErr]

----------------------------------------------------------------------------
NotifierInit ==
    /\ subscribers = {}
    /\ chanCtx = [ch \in Chans |-> "none"]
    /\ chanBuf = [ch \in Chans |-> <<>>]
    /\ chanClosed = [ch \in Chans |-> 0]
    /\ cancelled = {}
    /\ monitor = [ch \in Chans |-> "unused"]
    /\ mu = [w |-> NoOne, r |-> {}]
    /\ pub = [p \in Publishers |-> IdlePub]
    /\ fault = "none"

\* Subscribe, up to r.mu.Lock() taking the writers' turn: ch is made for ctx.
SubscribeLock(ch, ctx) ==
    /\ fault = "none"
    /\ monitor[ch] = "unused"
    /\ \A c \in Chans : c < ch => monitor[c] # "unused"
    /\ CanLockTurn(mu)
    /\ mu' = [mu EXCEPT !.w = ch]
    /\ chanCtx' = [chanCtx EXCEPT ![ch] = ctx]
    /\ monitor' = [monitor EXCEPT ![ch] = "subscribing"]
    /\ UNCHANGED <<subscribers, chanBuf, chanClosed, cancelled, pub, fault>>
    /\ UNCHANGED <<rvars, mvars, tvars>>

\* Subscribe, the rest: the map insert under the lock, Unlock, go monitor, return ch.
SubscribeInsert(ch) ==
    /\ fault = "none"
    /\ monitor[ch] = "subscribing"
    /\ mu.w = ch
    /\ CanLockEnter(mu)
    /\ subscribers' = subscribers \cup {ch}
    /\ mu' = [mu EXCEPT !.w = NoOne]
    /\ monitor' = [monitor EXCEPT ![ch] = "waiting"]
    /\ UNCHANGED <<chanCtx, chanBuf, chanClosed, cancelled, pub, fault>>
    /\ UNCHANGED <<rvars, mvars, tvars>>

\* The caller cancels a context.
Cancel(ctx) ==
    /\ fault = "none"
    /\ ctx \notin cancelled
    /\ cancelled' = cancelled \cup {ctx}
    /\ UNCHANGED <<subscribers, chanCtx, chanBuf, chanClosed, monitor, mu, pub, fault>>
    /\ UNCHANGED <<rvars, mvars, tvars>>

\* The monitor goroutine: <-ctx.Done() returned, r.mu.Lock() takes the writers' turn.
MonitorLock(ch) ==
    /\ fault = "none"
    /\ monitor[ch] = "waiting"
    /\ chanCtx[ch] \in cancelled
    /\ CanLockTurn(mu)
    /\ mu' = [mu EXCEPT !.w = ch]
    /\ monitor' = [monitor EXCEPT ![ch] = "locking"]
    /\ UNCHANGED <<subscribers, chanCtx, chanBuf, chanClosed, cancelled, pub, fault>>
    /\ UNCHANGED <<rvars, mvars, tvars>>

\* The monitor forgets the delete: the closed channel stays in the map.
AfterDeleteMissing(subs, ch) == subs

\* The monitor clears the whole map instead of deleting its own channel.
AfterDeleteAll(subs, ch) == {}

\* delete(r.subscribers, ch)
AfterDelete(subs, ch) == subs \ {ch}

\* The monitor goroutine under the lock: delete(r.subscribers, ch); close(ch); Unlock.
MonitorClose(ch) ==
    /\ fault = "none"
    /\ monitor[ch] = "locking"
    /\ mu.w = ch
    /\ CanLockEnter(mu)
    /\ subscribers' = AfterDelete(subscribers, ch)
    /\ chanClosed' = [chanClosed EXCEPT ![ch] = @ + 1]
    /\ fault' = IF chanClosed[ch] > 0 THEN "close of closed channel" ELSE fault
    /\ mu' = [mu EXCEPT !.w = NoOne]
    /\ monitor' = [monitor EXCEPT ![ch] = "done"]
    /\ UNCHANGED <<chanCtx, chanBuf, cancelled, pub>>
    /\ UNCHANGED <<rvars, mvars, tvars>>

\* The channels a NewEvent call ranges over: the map as it stands under the read lock.
RangeSubscribers(subs) == subs

\* NewEvent(msg): r.mu.RLock() and the start of the range over r.subscribers.
NewEventBegin(p, msg) ==
    /\ fault = "none"
    /\ pub[p].pc = "idle"
    /\ CanRLock(mu)
    /\ mu' = [mu EXCEPT !.r = @ \cup {p}]
    /\ pub' = [pub EXCEPT ![p] = [pc |-> "loop", msg |-> msg,
                                  todo |-> RangeSubscribers(subscribers),
                                  late |-> {ch \in subscribers : chanCtx[ch] \in cancelled}]]
    /\ UNCHANGED <<subscribers, chanCtx, chanBuf, chanClosed, cancelled, monitor, fault>>
    /\ UNCHANGED <<rvars, mvars, tvars>>

\* One iteration of the range (Go visits a map in no fixed order): the select on ch.
NewEventSend(p, ch) ==
    /\ fault = "none"
    /\ pub[p].pc = "loop"
    /\ ch \in pub[p].todo
    /\ IF chanClosed[ch] > 0
       THEN /\ fault' = "send on closed channel"
            /\ UNCHANGED chanBuf
       ELSE /\ chanBuf' = [chanBuf EXCEPT ![ch] = TrySend(@, pub[p].msg)]
            /\ UNCHANGED fault
    /\ pub' = [pub EXCEPT ![p].todo = @ \ {ch}, ![p].late = @ \ {ch}]
    /\ UNCHANGED <<subscribers, chanCtx, chanClosed, cancelled, monitor, mu>>
    /\ UNCHANGED <<rvars, mvars, tvars>>

\* The range is over: the deferred r.mu.RUnlock() runs and NewEvent returns.
NewEventEnd(p) ==
    /\ fault = "none"
    /\ pub[p].pc = "loop"
    /\ pub[p].todo = {}
    /\ mu' = [mu EXCEPT !.r = @ \ {p}]
    /\ pub' = [pub EXCEPT ![p] = IdlePub]
    /\ UNCHANGED <<subscribers, chanCtx, chanBuf, chanClosed, cancelled, monitor, fault>>
    /\ UNCHANGED <<rvars, mvars, tvars>>

\* The subscriber receives from the channel Subscribe returned (blocks while it is
\* empty and open).
Receive(ch) ==
    /\ fault = "none"
    /\ monitor[ch] \in {"waiting", "locking", "done"}
    /\ chanBuf[ch] # <<>> \/ chanClosed[ch] > 0
    /\ chanBuf' = [chanBuf EXCEPT ![ch] = IF @ = <<>> THEN @ ELSE Tail(@)]
    /\ UNCHANGED <<subscribers, chanCtx, chanClosed, cancelled, monitor, mu, pub, fault>>
    /\ UNCHANGED <<rvars, mvars, tvars>>

NotifierNext ==
    \/ \E ch \in Chans, ctx \in Ctxs : SubscribeLock(ch, ctx)
    \/ \E ch \in Chans : SubscribeInsert(ch)
    \/ \E ctx \in Ctxs : Cancel(ctx)
    \/ \E ch \in Chans : MonitorLock(ch)
    \/ \E ch \in Chans : MonitorClose(ch)
    \/ \E p \in Publishers, msg \in EventInputs : NewEventBegin(p, msg)
    \/ \E p \in Publishers, ch \in Chans : NewEventSend(p, ch)
    \/ \E p \in Publishers : NewEventEnd(p)
    \/ \E ch \in Chans : Receive(ch)

----------------------------------------------------------------------------
\* The configuration manager. T is a struct with one validated integer field, port;
\* a configuration value is the value of that field.

MaxPort == 2

MaxPending == 1

\* The subscriptions the application makes on the manager, all under one context.
MaxMgrSubs == 1

MgrChans == 1..MaxMgrSubs

\* How T declares Validate: "interface" is the manager whose T is Configurable and
\* that calls cfg.Validate() itself; the others are the manager that looks Validate up
\* by reflection, with T declaring it on the value, on the pointer, or not at all.
ValidateKinds == {"interface", "value", "pointer", "none"}

\* The file: unreadable (missing or not YAML), readable with a port that does not
\* decode into an int, or readable with an integer port.
Files ==
    {[st |-> "unreadable", port |-> 0], [st |-> "undecodable", port |-> 0]}
        \cup {[st |-> "ok", port |-> v] : v \in 0..MaxPort}

ErrorHandlers == {"default", "custom"}

NoReport == [by |-> "nobody", err |-> "none"]

NewCtor == [pc |-> "new", new |-> ZeroCfg, err |-> "none", valCalls |-> 0]

IdleHnd == [pc |-> "idle", old |-> ZeroCfg, new |-> ZeroCfg, err |-> "none", valCalls |-> 0]

IdleApp == [pc |-> "idle", got |-> ZeroCfg]

\* T.Validate, as the README writes it: the port must be positive.
Validate(c) == IF c < 1 THEN "invalid" ELSE "none"

\* Whether the manager ends up calling T.Validate on the decoded value cfg (a T, not
\* a *T): the direct call always does; reflect's MethodByName on a T finds only the
\* methods declared on the value.
ValidateIsFound(kind) == kind \in {"interface", "value"}

\* callValidateIfExists(cfg) / cfg.Validate(): the calls made and the error returned.
callValidateIfExists(kind, c) ==
    IF ValidateIsFound(kind) THEN [calls |-> 1, err |-> Validate(c)]
    ELSE [calls |-> 0, err |-> "none"]

\* loadConfig: ReadInConfig, Unmarshal, Validate; the first error ends it.
loadConfig(f, kind) ==
    IF f.st = "unreadable" THEN [err |-> "read", cfg |-> ZeroCfg, valCalls |-> 0]
    ELSE IF f.st = "undecodable" THEN [err |-> "decode", cfg |-> ZeroCfg, valCalls |-> 0]
    ELSE LET v == callValidateIfExists(kind, f.port)
         IN  IF v.err # "none" THEN [err |-> "validate", cfg |-> ZeroCfg, valCalls |-> v.calls]
             ELSE [err |-> "none", cfg |-> f.port, valCalls |-> v.calls]

\* r.updateMu, a sync.RWMutex. A read lock is taken and released within one step
\* (Config() only copies *r.config under it), so it is enough to know the writer.
UpdateMuFree == "free"

\* r.updateMu.Lock() and RLock() return: nobody holds the lock for writing.
UpdateMuCanLock(m) == m = UpdateMuFree

\* r.updateMu.Unlock() that leaves the lock held.
UpdateMuUnlockMissing(m) == m

\* r.updateMu.Unlock()
UpdateMuUnlock(m) == UpdateMuFree

\* updateConfig's "if err != nil { return nil, err }".
UpdateFailedNever(err) == FALSE

UpdateFailed(err) == err # "none"

\* Config()'s "if r.config == nil { panic(...) }".
ConfigPanicsNever(ptr) == FALSE

ConfigPanics(ptr) == ptr = <<>>

NotInitialized == "ConfigManager has not been initialized"

MgrInit ==
    /\ validate \in ValidateKinds
    /\ file \in Files
    /\ pending = 0
    /\ config = <<>>
    /\ errorHandler = "default"
    /\ updateMu = UpdateMuFree
    /\ reported = NoReport
    /\ ctor = NewCtor
    /\ hnd = IdleHnd
    /\ app = IdleApp

\* No manager is part of the run.
MgrIdle ==
    /\ validate = "interface"
    /\ file = [st |-> "ok", port |-> 1]
    /\ pending = 0
    /\ config = <<>>
    /\ errorHandler = "default"
    /\ updateMu = UpdateMuFree
    /\ reported = NoReport
    /\ ctor = NewCtor
    /\ hnd = IdleHnd
    /\ app = IdleApp

\* Somebody writes the file; once WatchConfig runs, the watcher gets an event.
FileChange(f) ==
    /\ fault = "none"
    /\ f # file
    /\ ctor.pc # "new" => pending < MaxPending
    /\ file' = f
    /\ pending' = IF ctor.pc = "new" THEN pending ELSE pending + 1
    /\ UNCHANGED <<validate, config, errorHandler, reported, ctor, hnd, app, updateMu>>
    /\ UNCHANGED <<nvars, rvars, tvars>>

\* NewConfigManager up to setupWatcher: the watcher runs before the first load.
CtorSetup ==
    /\ fault = "none"
    /\ ctor.pc = "new"
    /\ ctor' = [ctor EXCEPT !.pc = "load"]
    /\ UNCHANGED <<validate, file, pending, config, errorHandler, reported, hnd, app, updateMu>>
    /\ UNCHANGED <<nvars, rvars, tvars>>

\* NewConfigManager, updateConfig's loadConfig: an error makes the constructor
\* return (nil, err); the watcher it started stays.
CtorLoad ==
    /\ fault = "none"
    /\ ctor.pc = "load"
    /\ LET res == loadConfig(file, validate)
       IN  ctor' = IF UpdateFailed(res.err)
                   THEN [pc |-> "failed", new |-> ZeroCfg, err |-> res.err,
                         valCalls |-> res.valCalls]
                   ELSE [pc |-> "store", new |-> res.cfg, err |-> "none",
                         valCalls |-> res.valCalls]
    /\ UNCHANGED <<validate, file, pending, config, errorHandler, reported, hnd, app, updateMu>>
    /\ UNCHANGED <<nvars, rvars, tvars>>

\* NewConfigManager, updateConfig's r.updateMu.Lock().
CtorLock ==
    /\ fault = "none"
    /\ ctor.pc = "store"
    /\ UpdateMuCanLock(updateMu)
    /\ updateMu' = "ctor"
    /\ ctor' = [ctor EXCEPT !.pc = "swap"]
    /\ UNCHANGED <<validate, file, pending, config, errorHandler, reported, hnd, app>>
    /\ UNCHANGED <<nvars, rvars, tvars>>

\* NewConfigManager, the rest of updateConfig: r.config = newConfig and Unlock, and
\* the manager is returned to the application.
CtorStore ==
    /\ fault = "none"
    /\ ctor.pc = "swap"
    /\ config' = <<ctor.new>>
    /\ updateMu' = UpdateMuUnlock(updateMu)
    /\ ctor' = [ctor EXCEPT !.pc = "ready"]
    /\ UNCHANGED <<validate, file, pending, errorHandler, reported, hnd, app>>
    /\ UNCHANGED <<nvars, rvars, tvars>>

\* The watcher hands the next file-change event to the OnConfigChange handler.
HandlerStart ==
    /\ fault = "none"
    /\ hnd.pc = "idle"
    /\ pending > 0
    /\ pending' = pending - 1
    /\ hnd' = [IdleHnd EXCEPT !.pc = "check"]
    /\ UNCHANGED <<validate, file, config, errorHandler, reported, ctor, app, updateMu>>
    /\ UNCHANGED <<nvars, rvars, tvars>>

\* The handler's r.Config(): the nil test, made without the lock.
HandlerConfigCheck ==
    /\ fault = "none"
    /\ hnd.pc = "check"
    /\ IF ConfigPanics(config)
       THEN fault' = NotInitialized /\ UNCHANGED hnd
       ELSE hnd' = [hnd EXCEPT !.pc = "read"] /\ UNCHANGED fault
    /\ UNCHANGED <<validate, file, pending, config, errorHandler, reported, ctor, app, updateMu>>
    /\ UNCHANGED <<subscribers, chanCtx, chanBuf, chanClosed, cancelled, monitor, mu, pub>>
    /\ UNCHANGED <<rvars, tvars>>

\* The handler's r.Config(): RLock, return *r.config, RUnlock.
HandlerConfigRead ==
    /\ fault = "none"
    /\ hnd.pc = "read"
    /\ UpdateMuCanLock(updateMu)
    /\ IF config = <<>>
       THEN fault' = "nil pointer dereference" /\ UNCHANGED hnd
       ELSE hnd' = [hnd EXCEPT !.pc = "load", !.old = config[1]] /\ UNCHANGED fault
    /\ UNCHANGED <<validate, file, pending, config, errorHandler, reported, ctor, app, updateMu>>
    /\ UNCHANGED <<subscribers, chanCtx, chanBuf, chanClosed, cancelled, monitor, mu, pub>>
    /\ UNCHANGED <<rvars, tvars>>

\* The handler's r.updateConfig(), loadConfig: the file as it is now.
HandlerLoad ==
    /\ fault = "none"
    /\ hnd.pc = "load"
    /\ LET res == loadConfig(file, validate)
       IN  hnd' = IF UpdateFailed(res.err)
                  THEN [hnd EXCEPT !.pc = "report", !.err = res.err,
                                   !.valCalls = res.valCalls]
                  ELSE [hnd EXCEPT !.pc = "store", !.new = res.cfg,
                                   !.valCalls = res.valCalls]
    /\ UNCHANGED <<validate, file, pending, config, errorHandler, reported, ctor, app, updateMu>>
    /\ UNCHANGED <<nvars, rvars, tvars>>

\* The handler's r.updateConfig(), r.updateMu.Lock() after a successful load.
HandlerLock ==
    /\ fault = "none"
    /\ hnd.pc = "store"
    /\ UpdateMuCanLock(updateMu)
    /\ updateMu' = "hnd"
    /\ hnd' = [hnd EXCEPT !.pc = "swap"]
    /\ UNCHANGED <<validate, file, pending, config, errorHandler, reported, ctor, app>>
    /\ UNCHANGED <<nvars, rvars, tvars>>

\* The handler's r.updateConfig(), the swap: r.config = newConfig and Unlock.
HandlerStore ==
    /\ fault = "none"
    /\ hnd.pc = "swap"
    /\ config' = <<hnd.new>>
    /\ updateMu' = UpdateMuUnlock(updateMu)
    /\ hnd' = [hnd EXCEPT !.pc = "publish"]
    /\ UNCHANGED <<validate, file, pending, errorHandler, reported, ctor, app>>
    /\ UNCHANGED <<nvars, rvars, tvars>>

\* The handler on an error: r.errorHandler(err); return.
HandlerReport ==
    /\ fault = "none"
    /\ hnd.pc = "report"
    /\ reported' = [by |-> errorHandler, err |-> hnd.err]
    /\ hnd' = IdleHnd
    /\ UNCHANGED <<validate, file, pending, config, errorHandler, ctor, app, updateMu>>
    /\ UNCHANGED <<nvars, rvars, tvars>>

\* A handler that takes oldConfig after the swap instead of before it.
ConfigUpdateMsgAfterSwap(old, new) == [OldConfig |-> new, NewConfig |-> new]

\* ConfigUpdateMsg[T]{OldConfig: oldConfig, NewConfig: *newConfig}
ConfigUpdateMsg(old, new) == [OldConfig |-> old, NewConfig |-> new]

\* The handler on success: configUpdateNotifier.NewEvent({oldConfig, *newConfig}),
\* the whole call (nobody else publishes on the manager's notifier).
HandlerNewEvent ==
    /\ fault = "none"
    /\ hnd.pc = "publish"
    /\ CanRLock(mu)
    /\ LET msg == ConfigUpdateMsg(hnd.old, hnd.new)
           todo == RangeSubscribers(subscribers)
       IN  IF \E ch \in todo : chanClosed[ch] > 0
           THEN fault' = "send on closed channel" /\ UNCHANGED chanBuf
           ELSE /\ chanBuf' = [ch \in Chans |-> IF ch \in todo
                                                THEN TrySend(chanBuf[ch], msg)
                                                ELSE chanBuf[ch]]
                /\ UNCHANGED fault
    /\ hnd' = IdleHnd
    /\ UNCHANGED <<validate, file, pending, config, errorHandler, reported, ctor, app, updateMu>>
    /\ UNCHANGED <<subscribers, chanCtx, chanClosed, cancelled, monitor, mu, pub>>
    /\ UNCHANGED <<rvars, tvars>>

\* The application calls Config() on the manager NewConfigManager returned.
AppConfigCall ==
    /\ fault = "none"
    /\ ctor.pc = "ready"
    /\ app.pc = "idle"
    /\ app' = [pc |-> "check", got |-> ZeroCfg]
    /\ UNCHANGED <<validate, file, pending, config, errorHandler, reported, ctor, hnd, updateMu>>
    /\ UNCHANGED <<nvars, rvars, tvars>>

\* The application's Config(): the nil test.
AppConfigCheck ==
    /\ fault = "none"
    /\ app.pc = "check"
    /\ IF ConfigPanics(config)
       THEN fault' = NotInitialized /\ UNCHANGED app
       ELSE app' = [app EXCEPT !.pc = "read"] /\ UNCHANGED fault
    /\ UNCHANGED <<validate, file, pending, config, errorHandler, reported, ctor, hnd, updateMu>>
    /\ UNCHANGED <<subscribers, chanCtx, chanBuf, chanClosed, cancelled, monitor, mu, pub>>
    /\ UNCHANGED <<rvars, tvars>>

\* The application's Config(): RLock, return *r.config, RUnlock.
AppConfigRead ==
    /\ fault = "none"
    /\ app.pc = "read"
    /\ UpdateMuCanLock(updateMu)
    /\ IF config = <<>>
       THEN fault' = "nil pointer dereference" /\ UNCHANGED app
       ELSE app' = [pc |-> "idle", got |-> config[1]] /\ UNCHANGED fault
    /\ UNCHANGED <<validate, file, pending, config, errorHandler, reported, ctor, hnd, updateMu>>
    /\ UNCHANGED <<subscribers, chanCtx, chanBuf, chanClosed, cancelled, monitor, mu, pub>>
    /\ UNCHANGED <<rvars, tvars>>

\* SetErrorHandler(handler): r.updateMu.Lock().
SetErrorHandlerLock ==
    /\ fault = "none"
    /\ ctor.pc = "ready"
    /\ UpdateMuCanLock(updateMu)
    /\ updateMu' = "set"
    /\ UNCHANGED <<validate, file, pending, config, errorHandler, reported, ctor, hnd, app>>
    /\ UNCHANGED <<nvars, rvars, tvars>>

\* SetErrorHandler(handler): r.errorHandler = handler and the deferred Unlock.
SetErrorHandler(h) ==
    /\ fault = "none"
    /\ updateMu = "set"
    /\ errorHandler' = h
    /\ updateMu' = UpdateMuUnlock(updateMu)
    /\ UNCHANGED <<validate, file, pending, config, reported, ctor, hnd, app>>
    /\ UNCHANGED <<nvars, rvars, tvars>>

\* ChangeCh(ctx): configUpdateNotifier.Subscribe(ctx), up to taking the lock.
ChangeCh(ch, ctx) ==
    /\ ctor.pc = "ready"
    /\ SubscribeLock(ch, ctx)

MgrNext ==
    \/ \E f \in Files : FileChange(f)
    \/ CtorSetup
    \/ CtorLoad
    \/ CtorLock
    \/ CtorStore
    \/ HandlerStart
    \/ HandlerConfigCheck
    \/ HandlerConfigRead
    \/ HandlerLoad
    \/ HandlerLock
    \/ HandlerStore
    \/ HandlerReport
    \/ HandlerNewEvent
    \/ AppConfigCall
    \/ AppConfigCheck
    \/ AppConfigRead
    \/ SetErrorHandlerLock
    \/ \E h \in ErrorHandlers : SetErrorHandler(h)
    \/ \E ch \in MgrChans : ChangeCh(ch, "ctxA")
    \/ \E ch \in MgrChans : SubscribeInsert(ch)
    \/ \E ch \in MgrChans : Receive(ch)

\* No subscription, no NewEvent call: the notifier is not part of the run.
NotifierIdle == NotifierInit

----------------------------------------------------------------------------
\* The configuration types explored:
\*   struct { S struct { M struct{ P int } or []struct{ P int }; Q []int }; A bool; E struct{} }
\* with the env tags of S, M, P and A, the mapstructure tags of P and A, the default
\* tags of P, Q and A and the presence of E varied, and two roots that are no struct.

TypeOf(es, em, ep, ea, msP, msA, mslice, dP, dQ, dA, hasE) ==
    LET P == Field(<<"P">>, msP, ep, dP, "int", FALSE, <<>>)
        Q == Field(<<"Q">>, Tag(<<"q">>), <<>>, dQ, "int", TRUE, <<>>)
        M == Field(<<"M">>, Tag(<<"m">>), em, NoTag, "struct", mslice, <<P>>)
        S == Field(<<"S">>, Tag(<<"s">>), es, NoTag, "struct", FALSE, <<M, Q>>)
        A == Field(<<"A">>, msA, ea, dA, "bool", FALSE, <<>>)
        E == Field(<<"E">>, Tag(<<"e">>), <<>>, NoTag, "struct", FALSE, <<>>)
    IN  [kind |-> "struct", fields |-> IF hasE THEN <<S, A, E>> ELSE <<S, A>>]

\* The mapstructure tags of P and A: at most one is missing.
TagChoices == {<<Tag(<<"p">>), Tag(<<"a">>)>>, <<NoTag, Tag(<<"a">>)>>, <<Tag(<<"p">>), NoTag>>}

\* The default tags of P, Q and A: none, or one that parses, or one that does not.
DefaultChoices ==
    {<<NoTag, NoTag, NoTag>>,
     <<Tag(<<"7">>), NoTag, NoTag>>, <<Tag(<<"x">>), NoTag, NoTag>>,
     <<NoTag, Tag(<<"7", ",", "1">>), NoTag>>, <<NoTag, Tag(<<"7", ",", "x">>), NoTag>>,
     <<Tag(<<"7">>), Tag(<<"7", ",", "1">>), Tag(<<"x">>)>>}

StructTypes ==
    {TypeOf(es, em, ep, ea, ms[1], ms[2], mslice, d[1], d[2], d[3], hasE) :
        es \in {<<>>, Dash, <<"x">>}, em \in {<<>>, Dash, <<"y">>},
        ep \in {<<>>, Dash, <<"x">>}, ea \in {<<>>, Dash},
        ms \in TagChoices, mslice \in BOOLEAN, d \in DefaultChoices, hasE \in BOOLEAN}

\* struct { P []kind `default:"<comma list>"`; Q []kind `default:"<JSON array>"` }
PairType(kind, commaList, jsonArray) ==
    [kind |-> "struct",
     fields |-> <<Field(<<"P">>, Tag(<<"p">>), <<>>, Tag(commaList), kind, TRUE, <<>>),
                  Field(<<"Q">>, Tag(<<"q">>), <<>>, Tag(jsonArray), kind, TRUE, <<>>)>>]

\* One list of values written in the two forms of an array default, per element kind.
PairTypes ==
    {PairType("string", <<"a", ",", "x">>,
              <<"[", "\"", "a", "\"", ",", "\"", "x", "\"", "]">>),
     PairType("string", <<"a">>, <<"[", "\"", "a", "\"", "]">>),
     PairType("int", <<"7", ",", "1">>, <<"[", "7", ",", "1", "]">>),
     PairType("bool", <<"t", "r", "u", "e", ",", "f", "a", "l", "s", "e">>,
              <<"[", "t", "r", "u", "e", ",", "f", "a", "l", "s", "e", "]">>)}

\* Slices of structs inside slices of structs:
\*   struct { S []struct { M []struct{ P int }; Q []int }; A bool } and the same with E.
NestedTypes ==
    {[t EXCEPT !.fields[1].slice = TRUE] :
        t \in {TypeOf(<<>>, <<>>, <<>>, <<>>, Tag(<<"p">>), Tag(<<"a">>), TRUE, d[1], d[2], d[3], hasE) :
                  d \in DefaultChoices, hasE \in BOOLEAN}}

Types ==
    StructTypes
        \cup PairTypes
        \cup NestedTypes
        \cup {[kind |-> "string", fields |-> <<>>],
              [kind |-> "ptr", fields |-> TypeOf(<<>>, <<>>, <<>>, <<>>, Tag(<<"p">>), Tag(<<"a">>),
                                                 FALSE, NoTag, NoTag, NoTag, FALSE).fields]}

NotBuilt == [done |-> FALSE, tree |-> <<>>, err |-> NoErr]

NoInstance == [who |-> "none", made |-> FALSE, err |-> NoErr]

NotListed == [called |-> FALSE, lines |-> <<>>, err |-> NoErr]

NoCall == [op |-> "none", r |-> RootId, node |-> RootId, err |-> NoErr]

TypeInit ==
    /\ typ \in Types
    /\ version \in ParserVersions
    /\ built = NotBuilt
    /\ instance = NoInstance
    /\ envs = NotListed
    /\ defaults = NotListed
    /\ heap = RootOnly
    /\ nodeCall = NoCall
    /\ yaml = <<>>

\* No type is parsed and no tree is built by hand.
TreeIdle ==
    /\ typ = [kind |-> "string", fields |-> <<>>]
    /\ version = "before"
    /\ built = NotBuilt
    /\ instance = NoInstance
    /\ envs = NotListed
    /\ defaults = NotListed
    /\ heap = RootOnly
    /\ nodeCall = NoCall
    /\ yaml = <<>>

\* parser.ParseConfigStruct(cfg) on a value of the type.
ParseStruct ==
    /\ ~built.done
    /\ LET res == ParseConfigStruct(version, typ)
       IN  built' = [done |-> TRUE, tree |-> res.tree, err |-> res.err]
    /\ UNCHANGED <<typ, version, instance, envs, defaults, heap, nodeCall, yaml>>
    /\ UNCHANGED <<nvars, rvars, mvars>>

\* NewConfigManager[T] up to the tree, and NewConfigInspector[T]: on an error of
\* ParseConfigStruct they return nil and the error.
NewInstance(who) ==
    /\ instance.who = "none"
    /\ LET res == ParseConfigStruct(version, typ)
       IN  instance' = [who |-> who, made |-> res.err = NoErr, err |-> res.err]
    /\ UNCHANGED <<typ, version, built, envs, defaults, heap, nodeCall, yaml>>
    /\ UNCHANGED <<nvars, rvars, mvars>>

\* env.GetEnvs(cfg)
CallGetEnvs ==
    /\ ~envs.called
    /\ envs' = [called |-> TRUE, lines |-> GetEnvs(typ), err |-> NoErr]
    /\ UNCHANGED <<typ, version, built, instance, defaults, heap, nodeCall, yaml>>
    /\ UNCHANGED <<nvars, rvars, mvars>>

\* defaultValues.GetDefaultValues(cfg)
CallGetDefaultValues ==
    /\ ~defaults.called
    /\ LET res == GetDefaultValues(typ)
       IN  defaults' = [called |-> TRUE, lines |-> res.lines, err |-> res.err]
    /\ UNCHANGED <<typ, version, built, instance, envs, heap, nodeCall, yaml>>
    /\ UNCHANGED <<nvars, rvars, mvars>>

TypeNext ==
    \/ ParseStruct
    \/ \E who \in {"manager", "inspector"} : NewInstance(who)
    \/ CallGetEnvs
    \/ CallGetDefaultValues

InitType == TypeInit /\ NotifierIdle /\ ResolveIdle /\ MgrIdle

\* Types parsed into trees and listings.
TypeSpec == InitType /\ [][TypeNext]_vars

----------------------------------------------------------------------------
\* Rendering the template of a built tree, as PrintConfigTemplate does.

\* The GenerateYAMLFromTree calls explored per tree.
MaxRenders == 2

\* The types rendered:
\*   struct { S struct { M struct{ P int } or []struct{ P int }; Q []string or []int }; A bool }
\* with the defaults of P and Q and the desc tags of S and Q present or not.
RenderTypeOf(mslice, dP, kindQ, dQ, descS, descQ) ==
    LET P == Field(<<"P">>, Tag(<<"p">>), <<>>, dP, "int", FALSE, <<>>)
        Q == [Field(<<"Q">>, Tag(<<"q">>), <<>>, dQ, kindQ, TRUE, <<>>) EXCEPT !.desc = descQ]
        M == Field(<<"M">>, Tag(<<"m">>), <<>>, NoTag, "struct", mslice, <<P>>)
        S == [Field(<<"S">>, Tag(<<"s">>), <<>>, NoTag, "struct", FALSE, <<M, Q>>)
                 EXCEPT !.desc = descS]
        A == Field(<<"A">>, Tag(<<"a">>), <<>>, NoTag, "bool", FALSE, <<>>)
    IN  [kind |-> "struct", fields |-> <<S, A>>]

RenderTypes ==
    {RenderTypeOf(mslice, dP, kindQ, dQ, descS, descQ) :
        mslice \in BOOLEAN, dP \in {NoTag, Tag(<<"7">>)}, kindQ \in {"string", "int"},
        dQ \in {NoTag, Tag(<<"7", ",", "1">>)},
        descS \in {<<>>, <<"d">>}, descQ \in {<<>>, <<"e">>}}

RenderInit ==
    /\ typ \in RenderTypes
    /\ version = "before"
    /\ built = NotBuilt
    /\ instance = NoInstance
    /\ envs = NotListed
    /\ defaults = NotListed
    /\ heap = RootOnly
    /\ nodeCall = NoCall
    /\ yaml = <<>>

\* A render that, when it prints the descriptions, clears them in the nodes.
RenderConsuming(printDescription) ==
    /\ built.done /\ built.err = NoErr
    /\ Len(yaml) < MaxRenders
    /\ yaml' = Append(yaml, [printDescription |-> printDescription,
                             res |-> GenerateYAMLFromTree(built.tree[1], RootId, 0,
                                                          printDescription)])
    /\ built' = IF printDescription
                THEN [built EXCEPT !.tree[1] =
                         [n \in DOMAIN built.tree[1] |->
                             [built.tree[1][n] EXCEPT !.Description = <<>>]]]
                ELSE built
    /\ UNCHANGED <<typ, version, instance, envs, defaults, heap, nodeCall>>
    /\ UNCHANGED <<nvars, rvars, mvars>>

\* helper.GenerateYAMLFromTree(ci.configTree, "", printWithDescription) on the tree
\* ParseConfigStruct returned.
Render(printDescription) ==
    /\ built.done /\ built.err = NoErr
    /\ Len(yaml) < MaxRenders
    /\ yaml' = Append(yaml, [printDescription |-> printDescription,
                             res |-> GenerateYAMLFromTree(built.tree[1], RootId, 0,
                                                          printDescription)])
    /\ UNCHANGED <<typ, version, built, instance, envs, defaults, heap, nodeCall>>
    /\ UNCHANGED <<nvars, rvars, mvars>>

RenderNext ==
    \/ ParseStruct
    \/ \E printDescription \in BOOLEAN : Render(printDescription)

InitRender == RenderInit /\ NotifierIdle /\ ResolveIdle /\ MgrIdle

RenderSpec == InitRender /\ [][RenderNext]_vars

----------------------------------------------------------------------------
\* Trees built by hand with the node operations, as the node tests do.

MaxNodes == 4

RECURSIVE TopOf(_, _)
\* The node at the top of n's parent chain.
TopOf(h, n) == IF h[n].Parent = NilNode THEN n ELSE TopOf(h, h[n].Parent)

\* NewConfigNode(...): a node not yet attached.
MakeNode ==
    /\ NextId(heap) < MaxNodes
    /\ heap' = Alloc(heap, NewConfigNode(<<"n">>))
    /\ nodeCall' = [op |-> "NewConfigNode", r |-> NextId(heap), node |-> NextId(heap),
                    err |-> NoErr]
    /\ UNCHANGED <<typ, version, built, instance, envs, defaults, yaml>>
    /\ UNCHANGED <<nvars, rvars, mvars>>

\* r.AddChildNode(node), node a fresh node outside r's tree.
CallAddChildNode(r, node) ==
    /\ r \in DOMAIN heap /\ node \in DOMAIN heap
    /\ node # RootId /\ heap[node].Parent = NilNode /\ TopOf(heap, r) # node
    /\ LET res == AddChildNode(heap, r, node)
       IN  /\ heap' = res.h
           /\ nodeCall' = [op |-> "AddChildNode", r |-> r, node |-> node, err |-> res.err]
    /\ UNCHANGED <<typ, version, built, instance, envs, defaults, yaml>>
    /\ UNCHANGED <<nvars, rvars, mvars>>

\* r.SetConfigDescription(reflect.String, true, "default")
CallSetConfigDescription(r) ==
    /\ r \in DOMAIN heap
    /\ LET res == SetConfigDescription(heap, r, FALSE, "string", TRUE,
                                       [kind |-> "string", items |-> <<<<"x">>>>])
       IN  /\ heap' = res.h
           /\ nodeCall' = [op |-> "SetConfigDescription", r |-> r, node |-> r, err |-> res.err]
    /\ UNCHANGED <<typ, version, built, instance, envs, defaults, yaml>>
    /\ UNCHANGED <<nvars, rvars, mvars>>

NodeIdsMax == 0..MaxNodes

NodeNext ==
    \/ MakeNode
    \/ \E r \in NodeIdsMax, node \in NodeIdsMax : CallAddChildNode(r, node)
    \/ \E r \in NodeIdsMax : CallSetConfigDescription(r)

InitNode == TreeIdle /\ NotifierIdle /\ ResolveIdle /\ MgrIdle

NodeSpec == InitNode /\ [][NodeNext]_vars


Init == NotifierInit /\ ResolveIdle /\ MgrIdle /\ TreeIdle

Next == NotifierNext

Spec == Init /\ [][Next]_vars

\* The resolution alone: a configuration type, an environment and a file, loaded.
InitResolve == ResolveInit /\ NotifierIdle /\ MgrIdle /\ TreeIdle

ResolveSpec == InitResolve /\ [][ResolveNext]_vars

\* A manager over its file, the watcher's handler and the application's calls.
InitMgr == MgrInit /\ NotifierInit /\ ResolveIdle /\ TreeIdle

SpecMgr == InitMgr /\ [][MgrNext]_vars

\* A goroutine that can run does run: the monitor of a cancelled subscription, a
\* Subscribe or NewEvent call in progress. Nobody has to call NewEvent, Subscribe or
\* cancel, and no subscriber has to receive.
NotifierFairness ==
    /\ \A ch \in Chans : WF_vars(SubscribeInsert(ch))
    /\ \A ch \in Chans : WF_vars(MonitorLock(ch))
    /\ \A ch \in Chans : WF_vars(MonitorClose(ch))
    /\ \A p \in Publishers : WF_vars(\E ch \in Chans : NewEventSend(p, ch))
    /\ \A p \in Publishers : WF_vars(NewEventEnd(p))

FairSpec == Init /\ [][Next]_vars /\ NotifierFairness

----------------------------------------------------------------------------
\* p's range visits ch in this step.
Visits(p, ch) == ch \in pub[p].todo /\ ch \notin pub'[p].todo

C2_ClosedIsTerminal ==
    /\ fault = "none"
    /\ \A ch \in Chans :
        /\ chanClosed[ch] <= 1
        /\ chanClosed[ch] = 1 =>
              /\ ch \notin subscribers
              /\ monitor[ch] = "done"
              /\ \A p \in Publishers : ch \notin pub[p].todo

\* C2 witness: a subscription was closed while a NewEvent call is ranging over another.
C2_Witness ==
    \E ch \in Chans, p \in Publishers :
        /\ chanClosed[ch] = 1
        /\ pub[p].pc = "loop"
        /\ pub[p].todo # {}

\* C3 (as claimed): an event published to a subscriber whose buffer holds an
\* undelivered event displaces it: the subscriber's next receive returns the new event.
C3_LatestWins ==
    [][\A p \in Publishers, ch \in Chans :
          (Visits(p, ch) /\ Len(chanBuf[ch]) = ChanCap)
              => RecvResult(ch)' = [ok |-> TRUE, msg |-> pub[p].msg]]_vars

\* C3 (amended): an event published to a subscriber whose buffer holds an undelivered
\* event is dropped: the buffer is unchanged and the subscriber's next receive
\* returns the older event.
C3_FullBufferKeepsOldest ==
    [][\A p \in Publishers, ch \in Chans :
          (Visits(p, ch) /\ Len(chanBuf[ch]) = ChanCap)
              => /\ chanBuf'[ch] = chanBuf[ch]
                 /\ RecvResult(ch)' = [ok |-> TRUE, msg |-> Head(chanBuf[ch])]]_vars

\* C3 witness: a NewEvent call is about to visit a subscriber holding a different,
\* undelivered event.
C3_Witness ==
    \E p \in Publishers, ch \in Chans :
        /\ pub[p].pc = "loop"
        /\ ch \in pub[p].todo
        /\ Len(chanBuf[ch]) = ChanCap
        /\ Head(chanBuf[ch]) # pub[p].msg

\* C4: no buffer ever holds more than one event, and every NewEvent call in progress
\* returns although no subscriber ever receives.
C4_NeverBlocks ==
    /\ [](\A ch \in Chans : Len(chanBuf[ch]) <= ChanCap)
    /\ \A p \in Publishers : (pub[p].pc = "loop") ~> (pub[p].pc = "idle")

\* C4 witness: a NewEvent call has gone past a subscriber whose buffer stays full with
\* another event (its own was dropped or another call's came first), all buffers full.
C4_Witness ==
    \E p \in Publishers :
        /\ pub[p].pc = "loop"
        /\ pub[p].todo = {}
        /\ Cardinality(subscribers) = MaxSubs
        /\ \A ch \in subscribers : Len(chanBuf[ch]) = ChanCap
        /\ \E ch \in subscribers : Head(chanBuf[ch]) # pub[p].msg

C6_CancelledIsEventuallyClosed ==
    \A ch \in Chans :
        (monitor[ch] = "waiting" /\ chanCtx[ch] \in cancelled)
            ~> (ch \notin subscribers /\ chanClosed[ch] = 1 /\ monitor[ch] = "done")

\* C6 witness: a cancelled subscription is closed and removed while a NewEvent call
\* is in progress on the remaining subscriber.
C6_Witness ==
    \E ch \in Chans, p \in Publishers :
        /\ chanCtx[ch] \in cancelled
        /\ monitor[ch] = "done"
        /\ ch \notin subscribers
        /\ pub[p].pc = "loop"
        /\ subscribers # {}

----------------------------------------------------------------------------
\* C7: when the reload a file change triggered fails (the file cannot be read, does
\* not decode, or Validate returns an error), the handler leaves r.config at the value
\* it held before the reload, calls the error handler in place with that error and
\* returns, and nothing is sent to any subscriber on the way.
C7_FailedReloadKeepsLastGood ==
    [][/\ (hnd.pc = "load" /\ hnd'.pc # "load"
              /\ (file.st # "ok" \/ callValidateIfExists(validate, file.port).err # "none"))
          => /\ hnd'.pc = "report"
             /\ hnd'.err = (IF file.st = "unreadable" THEN "read"
                            ELSE IF file.st = "undecodable" THEN "decode" ELSE "validate")
             /\ config' = config
       /\ hnd.pc = "report"
          => /\ config = <<hnd.old>> /\ config' = config
             /\ \A ch \in Chans : Len(chanBuf'[ch]) <= Len(chanBuf[ch])
             /\ hnd'.pc \in {"report", "idle"}
             /\ hnd'.pc = "idle" => reported' = [by |-> errorHandler, err |-> hnd.err]]_vars

\* C7 witness: the handler has a failed validation to report while a subscriber is
\* listening and the application had installed its own error handler.
C7_Witness ==
    /\ hnd.pc = "report" /\ hnd.err = "validate"
    /\ config = <<hnd.old>>
    /\ subscribers # {}
    /\ errorHandler = "custom"

\* C8 (as claimed): whenever T declares Validate() error, an attempt that reaches a
\* decoded value calls it exactly once before the value can be stored, an error from
\* it ends the attempt with r.config as it was, and every value stored in r.config
\* has passed it.
C8_ValidateOncePerAttempt ==
    [][validate # "none" =>
          /\ (hnd.pc = "load" /\ hnd'.pc # "load" /\ file.st = "ok")
             => /\ hnd'.valCalls = 1
                /\ Validate(file.port) # "none" => (hnd'.pc = "report" /\ config' = config)
          /\ (ctor.pc = "load" /\ ctor'.pc # "load" /\ file.st = "ok")
             => /\ ctor'.valCalls = 1
                /\ Validate(file.port) # "none" => (ctor'.pc = "failed" /\ config' = config)
          /\ config' # config => (config' # <<>> /\ Validate(config'[1]) = "none")]_vars

\* C10: Config() panics exactly when r.config is still nil, that is until the first
\* successful updateConfig has stored a value; r.config never becomes nil again, and
\* a call that passes the test returns the value r.config points to at that moment.
C10_ConfigPanicsOnlyBeforeFirstStore ==
    [][/\ (hnd.pc = "check" /\ hnd' # hnd)
          => IF config = <<>> THEN fault' = NotInitialized
             ELSE fault' = "none" /\ hnd'.pc = "read"
       /\ (app.pc = "check" /\ app' # app)
          => IF config = <<>> THEN fault' = NotInitialized
             ELSE fault' = "none" /\ app'.pc = "read"
       /\ (hnd.pc = "check" /\ fault' # fault) => config = <<>>
       /\ (hnd.pc = "read" /\ hnd'.pc # "read")
          => (fault' = "none" /\ config # <<>> /\ hnd'.old = config[1])
       /\ (app.pc = "read" /\ app'.pc # "read")
          => (fault' = "none" /\ config # <<>> /\ app'.got = config[1])
       /\ config # <<>> => config' # <<>>
       /\ fault' # "nil pointer dereference"]_vars

\* C10 witness: the constructor failed, the file changed afterwards, and the handler's
\* Config() call panicked on the manager that never stored a value.
C10_Witness ==
    /\ fault = NotInitialized
    /\ config = <<>>
    /\ ctor.pc = "failed"
    /\ hnd.pc = "check"

\* C26: updateConfig holds updateMu for writing only for the swap: while the file is
\* read, decoded and validated the writer does not hold it, and a Config() call
\* that completes while a reload is loading or waiting for the lock returns the
\* value that was current before that reload, leaving r.config as it was. (Only a
\* SetErrorHandler call in progress, which is no part of a load, can make it wait.)
C26_WriterLocksOnlySwap ==
    [][/\ updateMu = "hnd" <=> hnd.pc = "swap"
       /\ updateMu = "ctor" <=> ctor.pc = "swap"
       /\ hnd.pc \in {"load", "store"} => config = <<hnd.old>>
       /\ (hnd.pc = "load" /\ app.pc = "read" /\ fault = "none" /\ updateMu # "set")
          => ENABLED AppConfigRead
       /\ (hnd.pc \in {"load", "store"} /\ app.pc = "read" /\ app'.pc = "idle")
          => (app'.got = hnd.old /\ config' = config /\ hnd' = hnd)]_vars

\* C26 witness: a Config() call has passed the nil test while the handler is loading
\* a file that will replace the current value, and nobody holds updateMu for writing.
C26_Witness ==
    /\ hnd.pc = "load" /\ app.pc = "read"
    /\ updateMu = UpdateMuFree
    /\ loadConfig(file, validate).err = "none"
    /\ loadConfig(file, validate).cfg # hnd.old

\* C27 (as claimed): the handler's Config() call never meets a manager without a
\* stored configuration: whatever the order of a file change and the steps of
\* NewConfigManager, a failed first load included, the handler never reaches the
\* "ConfigManager has not been initialized" panic.
C27_HandlerNeverUninitialized ==
    ~(hnd.pc = "check" /\ fault = NotInitialized)

\* C28: a change event agrees with the sequence of values installed in r.config: the
\* handler's swap replaces exactly the value it read as oldConfig by the value it
\* loaded, no other installation happens between that swap and the event, after
\* construction only the handler installs, and an event that reaches a subscriber
\* carries that old value and the value r.config holds at that moment.
C28_EventsFollowSwaps ==
    [][/\ (hnd.pc = "swap" /\ hnd'.pc # "swap")
          => (config = <<hnd.old>> /\ config' = <<hnd.new>> /\ hnd'.pc = "publish"
              /\ hnd'.old = hnd.old /\ hnd'.new = hnd.new)
       /\ hnd.pc = "publish" => (config = <<hnd.new>> /\ config' = config)
       /\ config' # config => (IF config = <<>> THEN ctor.pc = "swap" ELSE hnd.pc = "swap")
       /\ \A ch \in Chans :
              Len(chanBuf'[ch]) > Len(chanBuf[ch])
              => /\ hnd.pc = "publish" /\ hnd'.pc = "idle"
                 /\ chanBuf'[ch][Len(chanBuf'[ch])]
                        = [OldConfig |-> hnd.old, NewConfig |-> config[1]]]_vars

\* C28 witness: a subscriber holds the event of a reload that replaced one value by
\* another, the handler is idle again and r.config is the event's NewConfig.
C28_Witness ==
    /\ hnd.pc = "idle"
    /\ \E ch \in subscribers :
           /\ chanBuf[ch] # <<>>
           /\ chanBuf[ch][1].NewConfig = config[1]
           /\ chanBuf[ch][1].OldConfig # config[1]

\* A goroutine is about to write r.config inside updateConfig's critical section.
ConfigWritePending == ctor.pc = "swap" \/ hnd.pc = "swap"

\* A goroutine is about to read r.config in Config()'s nil test, before RLock.
ConfigReadUnlocked == app.pc = "check" \/ hnd.pc = "check"

\* The handler is about to read r.errorHandler on its failure path, with no lock.
ErrorHandlerReadUnlocked == hnd.pc = "report"

\* SetErrorHandler is about to write r.errorHandler inside its critical section.
ErrorHandlerWritePending == updateMu = "set"

\* C29 (as claimed): every read and write of r.config and r.errorHandler happens
\* with updateMu held, so no state has an unlocked read of a field next to a write of
\* it in progress; and updateMu is never held together with the notifier's lock.
C29_AllAccessUnderUpdateMu ==
    [][/\ ~(ConfigReadUnlocked /\ ConfigWritePending)
       /\ ~(ErrorHandlerReadUnlocked /\ ErrorHandlerWritePending)
       /\ updateMu' # updateMu => mu' = mu
       /\ (hnd.pc = "publish" /\ hnd'.pc # "publish") => updateMu # "hnd"]_vars

\* C30: subscriptions do not touch each other. A Subscribe call gets a channel no
\* earlier call got (new, open, empty and in nobody's hands); a channel leaves the
\* map or is closed only when its own context has been cancelled, and by the step of
\* its own monitor, which leaves the membership, the buffer and the open state of
\* every other channel as they were; and a channel whose context is not cancelled
\* stays in the map.
C30_SubscriptionsIsolated ==
    [][\A ch \in Chans :
          /\ (monitor[ch] # "subscribing" /\ monitor'[ch] = "subscribing")
             => /\ monitor[ch] = "unused" /\ ch \notin subscribers
                /\ chanBuf[ch] = <<>> /\ chanClosed[ch] = 0
                /\ \A c \in Chans \ {ch} : monitor'[c] = monitor[c]
          /\ (ch \in subscribers /\ chanCtx[ch] \notin cancelled') => ch \in subscribers'
          /\ chanCtx[ch] \notin cancelled' => chanClosed'[ch] = chanClosed[ch]
          /\ ((ch \in subscribers /\ ch \notin subscribers') \/ chanClosed'[ch] # chanClosed[ch])
             => /\ chanCtx[ch] \in cancelled
                /\ monitor[ch] = "locking" /\ monitor'[ch] = "done"
                /\ \A c \in Chans \ {ch} :
                       /\ (c \in subscribers') = (c \in subscribers)
                       /\ chanBuf'[c] = chanBuf[c]
                       /\ chanClosed'[c] = chanClosed[c]
                       /\ monitor'[c] = monitor[c]
          /\ cancelled' # cancelled
             => (subscribers' = subscribers /\ chanBuf' = chanBuf /\ chanClosed' = chanClosed)]_vars

\* C30 witness: two subscriptions with different contexts; the first context was
\* cancelled and its channel removed and closed, the second channel is still
\* subscribed and open with its event in the buffer.
C30_Witness ==
    \E ch, other \in Chans :
        /\ chanCtx[ch] # chanCtx[other]
        /\ chanCtx[ch] \in cancelled /\ chanCtx[other] \notin cancelled
        /\ monitor[ch] = "done" /\ ch \notin subscribers /\ chanClosed[ch] = 1
        /\ other \in subscribers /\ chanClosed[other] = 0 /\ chanBuf[other] # <<>>

----------------------------------------------------------------------------
\* The tree ParseConfigStruct returned, when the newer builder returned one without
\* an error (the node version with EnvName goes with that builder).
BuiltTree == built.tree[1]

HasBuiltTree == built.done /\ built.err = NoErr /\ version = "before"

\* The lines of the env listing for a leaf of the tree.
LinesOf(n) == {i \in 1..Len(envs.lines) : envs.lines[i].BindKey = BindKey(BuiltTree, n)}

\* C11 (as claimed): a leaf that carries env "-" itself or below an ancestor that
\* carries it has no environment name (GetEnv returns exist = false) and no line in
\* the env listing, whatever overrides it or deeper nodes carry.
C11_SuppressionInherited ==
    HasBuiltTree =>
        \A n \in Leaves(BuiltTree) :
            (\/ BuiltTree[n].EnvName = Dash
             \/ \E i \in 1..Len(GetAllParentNodes(BuiltTree, n)) :
                    BuiltTree[GetAllParentNodes(BuiltTree, n)[i]].EnvName = Dash)
            => /\ ~GetEnv(BuiltTree, n).exist
               /\ envs.called => LinesOf(n) = {}

\* C13 (as claimed): a leaf with an explicit override V other than "-" and without
\* a suppressing ancestor has exactly the name uppercase(V), in GetEnv and in the env
\* listing, whatever its ancestors are called.
C13_OverrideReplacesPath ==
    HasBuiltTree =>
        \A n \in Leaves(BuiltTree) :
            (/\ BuiltTree[n].EnvName \notin {<<>>, Dash}
             /\ \A i \in 1..Len(GetAllParentNodes(BuiltTree, n)) :
                    BuiltTree[GetAllParentNodes(BuiltTree, n)[i]].EnvName # Dash)
            => /\ GetEnv(BuiltTree, n) = [env |-> ToUpper(BuiltTree[n].EnvName), exist |-> TRUE]
               /\ envs.called =>
                      \A i \in LinesOf(n) : envs.lines[i].EnvVar = ToUpper(BuiltTree[n].EnvName)

\* C14: a leaf without an own override and without a suppressing ancestor is named
\* by the fragments of its ancestors from below the root down (the override if there
\* is one, else the field name) and its own field name, joined by "_" and
\* upper-cased; the env listing gives the same name.
C14_DerivedName ==
    HasBuiltTree =>
        \A n \in Leaves(BuiltTree) :
            LET t == BuiltTree
                up1 == t[n].Parent
                up2 == IF up1 = RootId THEN RootId ELSE t[up1].Parent
                frag(a) == IF t[a].EnvName # <<>> THEN t[a].EnvName ELSE t[a].FieldName
                expected ==
                    IF up1 = RootId THEN t[n].FieldName
                    ELSE IF up2 = RootId THEN frag(up1) \o <<"_">> \o t[n].FieldName
                    ELSE frag(up2) \o <<"_">> \o frag(up1) \o <<"_">> \o t[n].FieldName
            IN  (/\ t[n].EnvName = <<>>
                 /\ t[n].Level <= 3
                 /\ \A a \in {up1, up2} \ {RootId} : t[a].EnvName # Dash)
                => /\ GetEnv(t, n) = [env |-> ToUpper(expected), exist |-> TRUE]
                   /\ envs.called => \A i \in LinesOf(n) : envs.lines[i].EnvVar = ToUpper(expected)

\* C14 witness: a leaf two structs deep, under a struct with an override and one
\* without, has got its name and the env listing has been made.
C14_Witness ==
    /\ HasBuiltTree /\ envs.called
    /\ \E n \in Leaves(BuiltTree) :
          /\ BuiltTree[n].Level = 3
          /\ GetEnv(BuiltTree, n) = [env |-> <<"X", "_", "M", "_", "P">>, exist |-> TRUE]
          /\ LinesOf(n) # {}

C15_ContainerLeafExclusive ==
    [][/\ (nodeCall'.op = "AddChildNode" /\ heap[nodeCall'.r].IsLeaf)
              => nodeCall'.err # NoErr /\ heap' = heap
       /\ (nodeCall'.op = "SetConfigDescription" /\ Len(heap[nodeCall'.r].Children) > 0)
              => nodeCall'.err # NoErr /\ heap' = heap /\ ~heap'[nodeCall'.r].IsLeaf
       /\ \A n \in DOMAIN heap' : ~(heap'[n].IsLeaf /\ Len(heap'[n].Children) > 0)]_vars

\* C15 witness: AddChildNode has just been refused by a node that has a leaf
\* descriptor, in a tree where another node has a child.
C15_Witness ==
    /\ nodeCall.op = "AddChildNode"
    /\ nodeCall.err # NoErr
    /\ heap[nodeCall.r].IsLeaf
    /\ heap[nodeCall.node].Parent = NilNode
    /\ \E n \in DOMAIN heap : Len(heap[n].Children) > 0

\* C16 (as claimed): in every tree ParseConfigStruct returns, by either version of
\* the builder, the root has level 0 and every other node has the level of its
\* parent plus one.
C16_LevelIsDepth ==
    (built.done /\ built.err = NoErr) =>
        /\ built.tree[1][RootId].Level = 0
        /\ \A n \in DOMAIN built.tree[1] \ {RootId} :
               built.tree[1][n].Level = built.tree[1][built.tree[1][n].Parent].Level + 1

\* C17 (as claimed): in every tree ParseConfigStruct returns without error each node
\* below the root is either a container (children, no leaf descriptor) or a leaf (a
\* leaf descriptor, no children); none has neither.
C17_ContainerOrLeaf ==
    (built.done /\ built.err = NoErr) =>
        \A n \in DOMAIN built.tree[1] \ {RootId} :
            (Len(built.tree[1][n].Children) > 0) # built.tree[1][n].IsLeaf

\* C18 (as claimed): when ParseConfigStruct fails it returns an error and no tree
\* (nil), NewConfigManager and NewConfigInspector return no instance, and for a root
\* that is not a struct the error reads "expected a struct type but got <kind>".
C18_NoTreeOnFailure ==
    /\ (built.done /\ built.err # NoErr) => built.tree = <<>>
    /\ (instance.who # "none" /\ instance.err # NoErr) => ~instance.made
    /\ (built.done /\ typ.kind # "struct")
           => built.err = Err("expected a struct type but got " \o typ.kind, <<>>)

RECURSIVE Untagged(_)
\* The names of the fields without a mapstructure tag, in the order parseNode meets
\* them: a field's own tag is read before its type is entered.
Untagged(fields) ==
    IF fields = <<>> THEN <<>>
    ELSE LET f == Head(fields)
         IN  (IF ~f.ms.has THEN <<f.Name>>
              ELSE IF f.kind = "struct" THEN Untagged(f.fields)
              ELSE <<>>) \o Untagged(Tail(fields))

RECURSIVE DefaultsParse(_)
\* No field has a default tag the tree builder fails to parse.
DefaultsParse(fields) ==
    \A i \in 1..Len(fields) :
        IF fields[i].kind = "struct" THEN DefaultsParse(fields[i].fields)
        ELSE ParseDefault("before", fields[i]).err = NoErr

RECURSIVE HasBadDefault(_)
\* Some field carries a default tag that does not parse as the field's kind: the
\* text of a scalar, or an element of the comma-separated text of an array.
HasBadDefault(fields) ==
    \E i \in 1..Len(fields) :
        LET f == fields[i]
        IN  IF f.kind = "struct" THEN HasBadDefault(f.fields)
            ELSE /\ f.def.has
                 /\ f.kind \in {"int", "float", "bool"}
                 /\ IF f.slice
                    THEN \E j \in 1..Len(Split(f.def.val, ",")) :
                             ~ParsesAs(f.kind, Split(f.def.val, ",")[j])
                    ELSE ~ParsesAs(f.kind, f.def.val)

\* C20 (as claimed): a default that fails to parse as its declared kind aborts the
\* whole build with an error, in the tree builder and in the collector of default
\* values alike; it is never passed over.
C20_BadDefaultAborts ==
    (typ.kind = "struct" /\ HasBadDefault(typ.fields)) =>
        /\ built.done => built.err # NoErr /\ built.tree = <<>>
        /\ defaults.called => defaults.err # NoErr

\* The default the built tree holds for the leaf of the given field name.
BuiltDefaultOf(name) ==
    built.tree[1][CHOOSE n \in DOMAIN built.tree[1] : built.tree[1][n].FieldName = name].Default

\* The lines of the collector for the given bind key.
DefaultLinesOf(key) ==
    {defaults.lines[i].DefaultValue : i \in {j \in 1..Len(defaults.lines) : defaults.lines[j].BindKey = key}}

\* C21 (as claimed): a slice field whose default is a comma list and a slice field of
\* the same kind whose default is the JSON array of the same values get equal default
\* values, in the tree and in the collector's listing.
C21_ArrayDefaultRoundTrip ==
    typ \in PairTypes =>
        /\ built.done =>
               /\ built.err = NoErr
               /\ BuiltDefaultOf(<<"p">>) = BuiltDefaultOf(<<"q">>)
        /\ defaults.called =>
               /\ defaults.err = NoErr
               /\ DefaultLinesOf(<<"p">>) # {}
               /\ DefaultLinesOf(<<"p">>) = DefaultLinesOf(<<"q">>)

\* The leaves of the built tree that are arrays of primitives without a default.
EmptyArrayLeaves ==
    {n \in Leaves(built.tree[1]) :
        built.tree[1][n].IsArray /\ ~built.tree[1][n].Default.IsExist}

\* C22 (as claimed): rendering a tree with an array-of-primitives leaf that has no
\* default returns no error, and the text holds the leaf's "<name>:" line.
C22_EmptyArrayRenders ==
    \A i \in 1..Len(yaml) :
        EmptyArrayLeaves # {} =>
            /\ yaml[i].res.err = NoErr
            /\ \A n \in EmptyArrayLeaves :
                   \E k \in 1..Len(yaml[i].res.out) :
                       TrimLeft(yaml[i].res.out[k]) = built.tree[1][n].FieldName \o <<":">>

RECURSIVE NodeMatchesField(_, _, _)
\* Node n of tree h is what the builder is to make of field f: named by the field's
\* mapstructure key; for a struct or a slice of structs a node without a leaf
\* descriptor whose children are the fields of the (element) type in declaration
\* order, marked as an array of structs exactly for the slice; for any other field
\* a leaf without children, marked as an array exactly for a slice.
NodeMatchesField(h, n, f) ==
    /\ h[n].FieldName = f.ms.val
    /\ IF f.kind = "struct"
       THEN /\ h[n].IsArrayOfStructs = f.slice
            /\ ~h[n].IsLeaf
            /\ Len(h[n].Children) = Len(f.fields)
            /\ \A i \in 1..Len(f.fields) :
                   /\ h[h[n].Children[i]].Parent = n
                   /\ NodeMatchesField(h, h[n].Children[i], f.fields[i])
       ELSE /\ h[n].IsLeaf
            /\ h[n].IsArray = f.slice
            /\ ~h[n].IsArrayOfStructs
            /\ h[n].Children = <<>>

\* C23: in a tree ParseConfigStruct returns, the node of every slice-of-struct field
\* is marked IsArrayOfStructs, has no leaf descriptor and has the fields of the
\* element type as its children, in declaration order and at every depth; the node
\* of a slice of primitives is a leaf marked IsArray and not IsArrayOfStructs.
C23_StructArrays ==
    HasBuiltTree =>
        /\ Len(BuiltTree[RootId].Children) = Len(typ.fields)
        /\ \A i \in 1..Len(typ.fields) :
               NodeMatchesField(BuiltTree, BuiltTree[RootId].Children[i], typ.fields[i])

\* C23 witness: a tree has been built of a type with a slice of structs inside a
\* slice of structs and a slice of integers next to it.
C23_Witness ==
    /\ HasBuiltTree
    /\ typ.fields[1].slice /\ typ.fields[1].kind = "struct"
    /\ typ.fields[1].fields[1].slice /\ typ.fields[1].fields[1].kind = "struct"
    /\ LET s == BuiltTree[RootId].Children[1]
           m == BuiltTree[s].Children[1]
           q == BuiltTree[s].Children[2]
       IN  /\ BuiltTree[s].IsArrayOfStructs /\ BuiltTree[m].IsArrayOfStructs
           /\ BuiltTree[BuiltTree[m].Children[1]].FieldName = <<"p">>
           /\ BuiltTree[q].IsArray /\ ~BuiltTree[q].IsArrayOfStructs

RECURSIVE Up(_, _, _)
\* The node k parents above n.
Up(t, n, k) == IF k = 0 THEN n ELSE Up(t, t[n].Parent, k - 1)

RECURSIVE TypeKeys(_, _, _)
\* The dotted mapstructure paths of the primitive and slice-of-primitive fields of a
\* type, all of them or only those with a default tag.
TypeKeys(fields, prefix, onlyDefaults) ==
    UNION {LET f == fields[i]
               key == IF prefix = <<>> THEN f.ms.val ELSE prefix \o <<".">> \o f.ms.val
           IN  IF f.kind = "struct" THEN TypeKeys(f.fields, key, onlyDefaults)
               ELSE IF onlyDefaults /\ ~f.def.has THEN {}
               ELSE {key}
           : i \in 1..Len(fields)}

----------------------------------------------------------------------------
\* What the claimed precedence gives a leaf: the value of the variable setupViper
\* bound it to if that variable is set, else the file's value if the key has one,
\* else the declared default (a leaf without one keeps its zero value).
ClaimedValue(t, env, d, n) ==
    IF GetEnv(t, n).exist /\ GetEnv(t, n).env \in env THEN EnvValue(GetEnv(t, n).env)
    ELSE IF d[n] = "value" THEN FileValue(BindKey(t, n))
    ELSE IF t[n].Default.IsExist THEN t[n].Default.Value
    ELSE ZeroValue

\* C9 (as claimed): every leaf of a loaded configuration holds the value of its bound
\* environment variable if that is set, else the file's value, else its default.
C9_EnvFileDefault ==
    [][LoadResolved =>
        \A n \in Leaves(schema) : resolved'[1][n] = ClaimedValue(schema, environ, doc, n)]_vars

====
